---- MODULE Spec2Model ----
(***************************************************************************)
(* Request correlation of KiwoomComponent                                  *)
(* (src/app/components/kiwoom_component.py): blocking request_tr and       *)
(* send_order_sync over the broker's callback interface.                   *)
(*                                                                         *)
(* The program is single threaded.  A caller "suspends" by running a       *)
(* nested QEventLoop (exec_), so the Python call stack is a stack of       *)
(* suspended callers; broker events and QTimer timeouts are delivered by   *)
(* the innermost running loop, and the broker control may raise the event  *)
(* answering a call from inside the dispatch, before exec_; exec_ returns  *)
(* only in the innermost frame and only once exit() has been called on     *)
(* that frame's loop after it was entered.                                 *)
(***************************************************************************)
EXTENDS Integers, Sequences, FiniteSets, TLC

VARIABLES
    is_connected,         \* KiwoomComponent._is_connected
    login_event_loop,     \* KiwoomComponent._login_event_loop: "None" or the loop's state
    tr_screen_counter,    \* TrRequestManager._screen_counter
    order_screen_counter, \* OrderManager._screen_counter
    pending_tr_requests,  \* KiwoomComponent._pending_tr_requests (insertion ordered)
    pending_orders,       \* KiwoomComponent._pending_orders (insertion ordered)
    active_timers,        \* the QTimers that are running: <<kind, ticket id>>
    call_stack,           \* the suspended callers, outermost first
    next_uid,             \* the next value uuid4 yields (fresh on every call)
    last_op,              \* the step just taken: operation, key, stock code, value returned
    trading_mode,         \* auto.py: config['trading']['trading_mode']
    is_trading,           \* auto.py: TradingManager.is_trading
    real_data,            \* auto.py: DataManager.real_data[code]['current_price']
    price_data,           \* auto.py: DataManager.price_data[code], the prices in arrival order
    positions,            \* auto.py: OrderManager.positions
    order_sequence,       \* auto.py: OrderManager.order_sequence
    trader_pending_orders,\* auto.py: OrderManager.pending_orders (order ids accepted by the broker)
    trade_op,             \* the trading step just taken
    strategies,           \* auto.py: StrategyEngine.strategies, in registration order
    api_login_event_loop, \* auto.py: KiwoomAPI.login_event_loop: "None" or the loop's state
    fn_call               \* the function called in the step: its name, arguments and result

\* The trading system of auto.py; the request correlator leaves it alone.
trade_vars == <<trading_mode, is_trading, real_data, price_data, positions,
                order_sequence, trader_pending_orders, trade_op, strategies,
                api_login_event_loop, fn_call>>

\* The request correlator of kiwoom_component.py; the trading system leaves it alone.
component_vars == <<is_connected, login_event_loop, tr_screen_counter, order_screen_counter,
                    pending_tr_requests, pending_orders, active_timers, call_stack,
                    next_uid, last_op>>

vars == <<is_connected, login_event_loop, tr_screen_counter, order_screen_counter,
          pending_tr_requests, pending_orders, active_timers, call_stack,
          next_uid, last_op, trading_mode, is_trading, real_data, price_data, positions,
          order_sequence, trader_pending_orders, trade_op, strategies,
          api_login_event_loop, fn_call>>

----------------------------------------------------------------------------
\* Bounds of the exploration.
MaxDepth == 2      \* callers suspended at once
MaxCalls == 2      \* calls of request_tr / send_order_sync in one run

\* Program constants.
TR_SCREEN_START == 1000
ORDER_SCREEN_START == 2000
SCREEN_MAX == 9999
MAX_CONCURRENT_ORDERS == 5

\* Inputs.
Codes == {"005930", "000660"}
OtherCode == "A005930"
ErrCodes == {"", "0", "-200", "abc"}
\* What dynamicCall does on a dispatch: it returns a status, or it raises.
DispatchOutcomes == {[raised |-> FALSE, ret |-> 0],
                     [raised |-> FALSE, ret |-> -308],
                     [raised |-> TRUE, ret |-> 0]}
ConnectCodes == {0, -100}
OrphanKey == 0
\* What the broker control does while CommRqData / SendOrder runs: nothing, or it
\* raises the event that answers the call from inside the dispatch, so that the
\* handler runs after the ticket is stored and its timer started and before the
\* dispatch returns and exec_ is entered.
NoEvent == [event |-> "None", err_code |-> "", extract_raises |-> FALSE]
TrEarlyEvents ==
    {NoEvent} \cup {[event |-> "OnReceiveTrData", err_code |-> e, extract_raises |-> x] :
                        e \in ErrCodes, x \in BOOLEAN}
OrderEarlyEvents == {"None", "OnReceiveMsg", "OnReceiveChejanData"}

----------------------------------------------------------------------------
\* Results stored on a ticket / returned to a caller.
NoneResult == [type |-> "None", success |-> FALSE, timeout |-> FALSE, error |-> FALSE]
TrDataResult == [type |-> "tr_data", success |-> FALSE, timeout |-> FALSE, error |-> FALSE]
TrErrorResult == [type |-> "tr_error", success |-> FALSE, timeout |-> FALSE, error |-> TRUE]
TrTimeoutResult == [type |-> "tr_timeout", success |-> FALSE, timeout |-> FALSE, error |-> TRUE]
MessageResult == [type |-> "message", success |-> TRUE, timeout |-> FALSE, error |-> FALSE]
ChejanResult == [type |-> "chejan", success |-> TRUE, timeout |-> FALSE, error |-> FALSE]
OrderTimeoutResult == [type |-> "order_timeout", success |-> TRUE, timeout |-> TRUE, error |-> FALSE]
NotLoggedInResult == [type |-> "not_logged_in", success |-> FALSE, timeout |-> FALSE, error |-> TRUE]
DispatchFailedResult == [type |-> "dispatch_failed", success |-> FALSE, timeout |-> FALSE, error |-> TRUE]
ExceptionResult == [type |-> "exception", success |-> FALSE, timeout |-> FALSE, error |-> TRUE]
BoolResult(b) == [type |-> "bool", success |-> b, timeout |-> FALSE, error |-> FALSE]

----------------------------------------------------------------------------
\* QEventLoop, by its exit flag: "stopped" (constructed, or exit() called) or
\* "running" (inside exec_, exit() not called since).  isRunning() reads the flag.
isRunning(loop) == loop = "running"
loop_exit(loop) == "stopped"

\* Sequence helpers for the insertion-ordered dicts.
Positions(table, Match(_)) == {i \in 1..Len(table) : Match(table[i])}
Min(S) == CHOOSE x \in S : \A y \in S : x <= y
FirstPosition(table, Match(_)) ==
    IF Positions(table, Match) = {} THEN 0 ELSE Min(Positions(table, Match))
RemoveAt(table, i) == [j \in 1..(Len(table) - 1) |-> IF j < i THEN table[j] ELSE table[j + 1]]

TrIndex(table, request_id) == FirstPosition(table, LAMBDA t : t.request_id = request_id)
OrderIndex(table, order_id) == FirstPosition(table, LAMBDA t : t.order_id = order_id)

\* The wrapping screen counter of both managers.
next_screen(counter, start) == IF counter + 1 > SCREEN_MAX THEN start ELSE counter + 1

\* TrRequestManager.create_request(request_id, tr_code, inputs, callback = None):
\* the ticket (the counter moves in the caller's step).  The request_id argument
\* is overwritten by a fresh id, uid.  callback_calls: the results the ticket's
\* callback has been invoked with.
create_request(uid, counter, request_id, tr_code, inputs, callback) ==
    [request_id |-> uid, tr_code |-> tr_code, screen_no |-> counter, inputs |-> inputs,
     callback |-> callback, completed |-> FALSE, result |-> NoneResult,
     event_loop |-> "stopped", callback_calls |-> <<>>]

\* The arguments of a request_tr call: no callback, or one.
NoCallback == "None"
Callbacks == {NoCallback, "callback"}
TR_CODE == "opt10001"
INPUTS == "inputs"

\* OrderManager.create_order_request.
create_order_request(uid, counter, code) ==
    [order_id |-> uid, screen_no |-> counter, code |-> code, completed |-> FALSE,
     result |-> NoneResult, event_loop |-> "stopped"]

----------------------------------------------------------------------------
\* The state of the ticket tables and timers, as the handlers transform it.
Tables(tr, orders, timers) == [tr |-> tr, orders |-> orders, timers |-> timers]

\* Mutant: the ticket is dropped from the table but its timer is left running.
cleanup_tr_request_keeps_timer(s, request_id) ==
    LET i == TrIndex(s.tr, request_id) IN
    IF i = 0 THEN s
    ELSE Tables(RemoveAt(s.tr, i), s.orders, s.timers)

\* KiwoomComponent._cleanup_tr_request
cleanup_tr_request(s, request_id) ==
    LET i == TrIndex(s.tr, request_id) IN
    IF i = 0 THEN s
    ELSE Tables(RemoveAt(s.tr, i), s.orders, s.timers \ {<<"TR", request_id>>})

\* Mutant: the timer is stopped but the ticket stays in the table.
cleanup_order_request_keeps_entry(s, order_id) ==
    LET i == OrderIndex(s.orders, order_id) IN
    IF i = 0 THEN s
    ELSE Tables(s.tr, s.orders, s.timers \ {<<"ORDER", order_id>>})

\* KiwoomComponent._cleanup_order_request
cleanup_order_request(s, order_id) ==
    LET i == OrderIndex(s.orders, order_id) IN
    IF i = 0 THEN s
    ELSE Tables(s.tr, RemoveAt(s.orders, i), s.timers \ {<<"ORDER", order_id>>})

\* KiwoomComponent._handle_tr_timeout
handle_tr_timeout(tr, request_id) ==
    LET i == TrIndex(tr, request_id) IN
    IF i # 0 /\ ~tr[i].completed
    THEN [tr EXCEPT ![i] = [@ EXCEPT !.result = TrTimeoutResult,
                                     !.completed = TRUE,
                                     !.event_loop = loop_exit(@)]]
    ELSE tr

\* Mutant: the timeout does not look at the completed flag.
handle_order_timeout_overwrites(orders, order_id) ==
    LET i == OrderIndex(orders, order_id) IN
    IF i # 0
    THEN [orders EXCEPT ![i] = [@ EXCEPT !.result = OrderTimeoutResult,
                                         !.completed = TRUE,
                                         !.event_loop = loop_exit(@)]]
    ELSE orders

\* Mutant: the timeout marks the ticket and wakes the caller but stores no result.
handle_order_timeout_no_result(orders, order_id) ==
    LET i == OrderIndex(orders, order_id) IN
    IF i # 0 /\ ~orders[i].completed
    THEN [orders EXCEPT ![i] = [@ EXCEPT !.completed = TRUE,
                                         !.event_loop = loop_exit(@)]]
    ELSE orders

\* Mutant: the timeout stores a failure result.
handle_order_timeout_reports_failure(orders, order_id) ==
    LET i == OrderIndex(orders, order_id) IN
    IF i # 0 /\ ~orders[i].completed
    THEN [orders EXCEPT ![i] = [@ EXCEPT !.result = [OrderTimeoutResult EXCEPT
                                                        !.success = FALSE, !.error = TRUE],
                                         !.completed = TRUE,
                                         !.event_loop = loop_exit(@)]]
    ELSE orders

\* KiwoomComponent._handle_order_timeout
handle_order_timeout(orders, order_id) ==
    LET i == OrderIndex(orders, order_id) IN
    IF i # 0 /\ ~orders[i].completed
    THEN [orders EXCEPT ![i] = [@ EXCEPT !.result = OrderTimeoutResult,
                                         !.completed = TRUE,
                                         !.event_loop = loop_exit(@)]]
    ELSE orders

\* int(err_code) of _receive_tr_data, for the strings the broker may pass.
ErrCodeRaises(err_code) == err_code \notin {"", "0", "-200"}
ErrCodeValue(err_code) == IF err_code = "-200" THEN -200 ELSE 0

\* KiwoomComponent._receive_tr_data.  extract_raises: _extract_raw_data raised
\* (a failed field read ends in an item assignment on a list).
receive_tr_data(tr, rq_name, err_code, extract_raises) ==
    LET i == TrIndex(tr, rq_name)
        invoked(result) == IF tr[i].callback # NoCallback
                           THEN Append(tr[i].callback_calls, result)
                           ELSE tr[i].callback_calls
    IN
    IF i = 0 THEN tr
    ELSE IF tr[i].completed THEN tr
    ELSE IF ErrCodeRaises(err_code)
         THEN [tr EXCEPT ![i].event_loop = loop_exit(@)]
    ELSE IF ErrCodeValue(err_code) # 0
         THEN [tr EXCEPT ![i] = [@ EXCEPT !.result = TrErrorResult,
                                          !.completed = TRUE,
                                          !.callback_calls = invoked(TrErrorResult),
                                          !.event_loop = loop_exit(@)]]
    ELSE IF extract_raises
         THEN [tr EXCEPT ![i].event_loop = loop_exit(@)]
    ELSE [tr EXCEPT ![i] = [@ EXCEPT !.result = TrDataResult,
                                     !.completed = TRUE,
                                     !.callback_calls = invoked(TrDataResult),
                                     !.event_loop = loop_exit(@)]]

\* Mutant: the message completes the first open ticket whatever its screen number.
receive_msg_any_screen(orders, screen_no) ==
    LET i == FirstPosition(orders, LAMBDA t : ~t.completed) IN
    IF i = 0 THEN orders
    ELSE [orders EXCEPT ![i] = [@ EXCEPT !.result = MessageResult,
                                         !.completed = TRUE,
                                         !.event_loop = loop_exit(@)]]

\* KiwoomComponent._receive_msg: the first ticket, in insertion order, with this
\* screen number that is not completed.
receive_msg(orders, screen_no) ==
    LET i == FirstPosition(orders, LAMBDA t : t.screen_no = screen_no /\ ~t.completed) IN
    IF i = 0 THEN orders
    ELSE [orders EXCEPT ![i] = [@ EXCEPT !.result = MessageResult,
                                         !.completed = TRUE,
                                         !.event_loop = loop_exit(@)]]

\* Mutant: the loop over the tickets has no break.
receive_chejan_data_no_break(orders, gubun, stock_code) ==
    IF gubun # "0" THEN orders
    ELSE [i \in 1..Len(orders) |->
            IF orders[i].code = stock_code /\ ~orders[i].completed
            THEN [orders[i] EXCEPT !.result = ChejanResult,
                                   !.completed = TRUE,
                                   !.event_loop = loop_exit(@)]
            ELSE orders[i]]

\* KiwoomComponent._receive_chejan_data: for gubun "0", the first ticket, in
\* insertion order, for this stock code that is not completed.
receive_chejan_data(orders, gubun, stock_code) ==
    LET i == FirstPosition(orders, LAMBDA t : t.code = stock_code /\ ~t.completed) IN
    IF gubun # "0" \/ i = 0 THEN orders
    ELSE [orders EXCEPT ![i] = [@ EXCEPT !.result = ChejanResult,
                                         !.completed = TRUE,
                                         !.event_loop = loop_exit(@)]]

----------------------------------------------------------------------------
\* auto.py: the trading system.  Prices and quantities are integers; the
\* program's float values (average price, RSI, confidence, ratios) are doubles,
\* computed operation by operation with the rounding of IEEE 754.

\* Config.load_config defaults and TradingManager's fixed values.
MAX_DAILY_TRADES == 10
ACCOUNT_BALANCE == 10000000
OVERSOLD == 30
OVERBOUGHT == 70
HISTORY_MAX == 1000
RSI_FULL == 100
RSI_NEUTRAL == 50
\* RiskManager.daily_trades: set in __init__, assigned nowhere else.
daily_trades == 0
\* The period of the RSI strategy in the default configuration, and the period
\* a config.yaml sets for the runs that reach trading signals in a few ticks.
DEFAULT_PERIOD == 14
period == 2
TradingModes == {"test", "normal", "24hour"}

\* Exact arithmetic on fractions <<n, d>> in lowest terms, d > 0.
Abs(x) == IF x < 0 THEN -x ELSE x
RECURSIVE GCD(_, _)
GCD(a, b) == IF b = 0 THEN a ELSE GCD(b, a % b)
Rat(n, d) ==
    LET g == GCD(Abs(n), Abs(d))
        s == IF d < 0 THEN -1 ELSE 1
    IN <<(s * n) \div g, (s * d) \div g>>
RatOf(i) == <<i, 1>>
RatAdd(a, b) == Rat(a[1] * b[2] + b[1] * a[2], a[2] * b[2])
RatSub(a, b) == Rat(a[1] * b[2] - b[1] * a[2], a[2] * b[2])
RatMul(a, b) == Rat(a[1] * b[1], a[2] * b[2])
RatDiv(a, b) == Rat(a[1] * b[2], a[2] * b[1])
RatLess(a, b) == a[1] * b[2] < b[1] * a[2]
RatGeq(a, b) == ~RatLess(a, b)
\* int(): truncation towards zero.
RatInt(a) == IF a[1] >= 0 THEN a[1] \div a[2] ELSE -((-a[1]) \div a[2])

\* Python float arithmetic.  A float is an IEEE 754 double; the program's
\* values are far from the subnormal and overflow ranges.  A natural number of
\* any size is a sequence of limbs in base LimbBase, least significant first,
\* without leading zero limbs (0 is <<>>), so that every intermediate value
\* stays below 2^31.
LimbBits == 31 \div 2
LimbBase == 2 ^ LimbBits
MantissaBits == 53
\* The value of e handed to Body: e is evaluated once, however often Body
\* reads it.
Let(e, Body(_)) == CHOOSE r \in {Body(v) : v \in {e}} : TRUE
Let2(e, f, Body(_, _)) == CHOOSE r \in {Body(v, w) : v \in {e}, w \in {f}} : TRUE
Limb(a, i) == IF i <= Len(a) THEN a[i] ELSE 0
RECURSIVE BTop(_, _)
BTop(a, n) == IF n > 0 /\ a[n] = 0 THEN BTop(a, n - 1) ELSE n
BNorm(a) == Let(a, LAMBDA v : SubSeq(v, 1, BTop(v, Len(v))))
RECURSIVE BFromInt(_)
BFromInt(n) ==
    IF n = 0 THEN <<>>
    ELSE <<n % LimbBase>> \o BFromInt(n \div LimbBase)
RECURSIVE BToIntFrom(_, _)
BToIntFrom(a, i) == IF i > Len(a) THEN 0 ELSE a[i] + LimbBase * BToIntFrom(a, i + 1)
BToInt(a) == Let(a, LAMBDA v : BToIntFrom(v, 1))
RECURSIVE BCmpAt(_, _, _)
BCmpAt(a, b, i) ==
    IF i = 0 THEN 0
    ELSE IF a[i] # b[i] THEN (IF a[i] < b[i] THEN -1 ELSE 1)
    ELSE BCmpAt(a, b, i - 1)
\* -1, 0, 1 as a < b, a = b, a > b
BCmp(a, b) ==
    Let2(a, b, LAMBDA v, w : IF Len(v) # Len(w) THEN (IF Len(v) < Len(w) THEN -1 ELSE 1)
                             ELSE BCmpAt(v, w, Len(v)))
RECURSIVE BAddFrom(_, _, _, _)
BAddFrom(a, b, i, carry) ==
    IF i > Len(a) /\ i > Len(b) THEN (IF carry = 0 THEN <<>> ELSE <<carry>>)
    ELSE LET t == Limb(a, i) + Limb(b, i) + carry
         IN <<t % LimbBase>> \o BAddFrom(a, b, i + 1, t \div LimbBase)
BAdd(a, b) == Let2(a, b, LAMBDA v, w : BAddFrom(v, w, 1, 0))
RECURSIVE BSubFrom(_, _, _, _)
BSubFrom(a, b, i, borrow) ==
    IF i > Len(a) THEN <<>>
    ELSE LET t == a[i] - Limb(b, i) - borrow
         IN <<IF t < 0 THEN t + LimbBase ELSE t>>
                \o BSubFrom(a, b, i + 1, IF t < 0 THEN 1 ELSE 0)
\* a - b for a >= b
BSub(a, b) == Let2(a, b, LAMBDA v, w : BNorm(BSubFrom(v, w, 1, 0)))
RECURSIVE BMulSmallFrom(_, _, _, _)
BMulSmallFrom(a, c, i, carry) ==
    IF i > Len(a) THEN (IF carry = 0 THEN <<>> ELSE <<carry>>)
    ELSE LET t == a[i] * c + carry
         IN <<t % LimbBase>> \o BMulSmallFrom(a, c, i + 1, t \div LimbBase)
\* a * c for a limb c
BMulSmall(a, c) ==
    Let2(a, c, LAMBDA v, w : IF w = 0 THEN <<>> ELSE BMulSmallFrom(v, w, 1, 0))
BShiftLimbs(a, n) == Let(a, LAMBDA v : IF v = <<>> THEN <<>> ELSE [i \in 1..n |-> 0] \o v)
RECURSIVE BMulFrom(_, _, _)
BMulFrom(a, b, i) ==
    IF i > Len(b) THEN <<>>
    ELSE Let(i, LAMBDA j : BAdd(BShiftLimbs(BMulSmall(a, b[j]), j - 1), BMulFrom(a, b, j + 1)))
BMul(a, b) == Let2(a, b, LAMBDA v, w : BMulFrom(v, w, 1))
\* a * 2^n
BShl(a, n) ==
    Let(n, LAMBDA k : BShiftLimbs(BMulSmall(a, 2 ^ (k % LimbBits)), k \div LimbBits))
RECURSIVE BDivSmallFrom(_, _, _, _)
BDivSmallFrom(a, c, i, r) ==
    IF i = 0 THEN <<>>
    ELSE LET t == r * LimbBase + a[i]
         IN Append(BDivSmallFrom(a, c, i - 1, t % c), t \div c)
\* floor(a / 2^n)
BShr(a, n) ==
    Let2(a, n, LAMBDA v, k :
        IF k \div LimbBits >= Len(v) THEN <<>>
        ELSE Let(SubSeq(v, k \div LimbBits + 1, Len(v)),
                 LAMBDA high : BNorm(BDivSmallFrom(high, 2 ^ (k % LimbBits), Len(high), 0))))
\* The number of bits of a limb, and of a number.
IntBitLen(n) ==
    Let(n, LAMBDA v : IF v = 0 THEN 0
                      ELSE CHOOSE k \in 1..LimbBits : 2 ^ (k - 1) <= v /\ v < 2 ^ k)
BitLen(a) ==
    Let(a, LAMBDA v : IF v = <<>> THEN 0 ELSE LimbBits * (Len(v) - 1) + IntBitLen(v[Len(v)]))
BOdd(a) == Let(a, LAMBDA v : v # <<>> /\ v[1] % 2 = 1)
\* Long division, one limb of the quotient at a time: the digit is guessed
\* from the leading limbs and lowered until it fits.
RECURSIVE BTrialDigit(_, _, _)
BTrialDigit(r, v, d) ==
    IF BCmp(BMulSmall(v, d), r) > 0 THEN BTrialDigit(r, v, d - 1) ELSE d
BDigit(r, v) ==
    Let((Limb(r, Len(v) + 1) * LimbBase + Limb(r, Len(v))) \div v[Len(v)],
        LAMBDA guess : Let(IF guess > LimbBase - 1 THEN LimbBase - 1 ELSE guess,
                           LAMBDA d : BTrialDigit(r, v, d)))
RECURSIVE BDivFrom(_, _, _, _)
BDivFrom(a, v, i, r) ==
    IF i = 0 THEN <<<<>>, r>>
    ELSE Let2(BNorm(<<a[i]>> \o r), i - 1, LAMBDA cur, j :
            Let(BDigit(cur, v), LAMBDA d :
                Let(BSub(cur, BMulSmall(v, d)), LAMBDA left :
                    Let(BDivFrom(a, v, j, left), LAMBDA rest :
                        <<Append(rest[1], d), rest[2]>>))))
\* <<floor(a / v), whether a remainder is left>> for v # 0: the divisor is
\* scaled to a full leading limb first.
BDivMod(a, v) ==
    Let2(a, v, LAMBDA x, y :
        Let(LimbBits - IntBitLen(y[Len(y)]), LAMBDA s :
            Let2(BShl(x, s), BShl(y, s), LAMBDA xs, ys :
                Let(BDivFrom(xs, ys, Len(xs), <<>>), LAMBDA res :
                    <<BNorm(res[1]), res[2] # <<>> >>))))

\* A double is <<sign, mantissa, exponent>> for sign * mantissa * 2^exponent,
\* the mantissa odd and below 2^53; zero is <<0, <<>>, 0>>.
DyZero == <<0, <<>>, 0>>
IntTrailingZeros(n) == Let(n, LAMBDA v : CHOOSE k \in 0..(LimbBits - 1) : v % 2 ^ (k + 1) = 2 ^ k)
RECURSIVE BLowZeros(_, _)
BLowZeros(a, i) == IF a[i] = 0 THEN BLowZeros(a, i + 1) ELSE i - 1
\* sign * m * 2^e with the mantissa made odd.
DyMake(sign, m, e) ==
    Let(m, LAMBDA x :
        IF x = <<>> THEN DyZero
        ELSE Let(BLowZeros(x, 1), LAMBDA limbs :
                 Let(limbs * LimbBits + IntTrailingZeros(x[limbs + 1]), LAMBDA z :
                     <<sign, BShr(x, z), e + z>>)))
\* sign * m * 2^e rounded to 53 bits, ties to even.
DyRound(sign, m, e) ==
    Let(m, LAMBDA x :
        IF BitLen(x) <= MantissaBits THEN DyMake(sign, x, e)
        ELSE Let(BitLen(x) - MantissaBits, LAMBDA r :
                 Let(BShr(x, r), LAMBDA q :
                     Let(BCmp(BSub(x, BShl(q, r)), BShl(<<1>>, r - 1)), LAMBDA c :
                         DyMake(sign,
                                IF c > 0 \/ (c = 0 /\ BOdd(q)) THEN BAdd(q, <<1>>) ELSE q,
                                e + r)))))
DyOfInt(i) ==
    Let(i, LAMBDA v : IF v = 0 THEN DyZero
                      ELSE DyMake(IF v < 0 THEN -1 ELSE 1, BFromInt(IF v < 0 THEN -v ELSE v), 0))
DyNeg(a) == Let(a, LAMBDA x : <<-x[1], x[2], x[3]>>)
\* a + b, exact: <<sign, magnitude, exponent>>
DySum(a, b) ==
    Let2(a, b, LAMBDA x, y :
        IF x[1] = 0 THEN y
        ELSE IF y[1] = 0 THEN x
        ELSE Let(IF x[3] < y[3] THEN x[3] ELSE y[3], LAMBDA e :
                 Let2(BShl(x[2], x[3] - e), BShl(y[2], y[3] - e), LAMBDA mx, my :
                     IF x[1] = y[1] THEN <<x[1], BAdd(mx, my), e>>
                     ELSE Let(BCmp(mx, my), LAMBDA c :
                              IF c = 0 THEN DyZero
                              ELSE IF c > 0 THEN <<x[1], BSub(mx, my), e>>
                              ELSE <<y[1], BSub(my, mx), e>>))))
DyAdd(a, b) == Let(DySum(a, b), LAMBDA sum : DyRound(sum[1], sum[2], sum[3]))
DySub(a, b) == DyAdd(a, DyNeg(b))
DyMul(a, b) == Let2(a, b, LAMBDA x, y : DyRound(x[1] * y[1], BMul(x[2], y[2]), x[3] + y[3]))
\* a / b for b # 0: the quotient to at least 55 bits and a sticky bit, rounded.
DyDiv(a, b) ==
    Let2(a, b, LAMBDA x, y :
        IF x[1] = 0 THEN DyZero
        ELSE Let(MantissaBits + 2 + BitLen(y[2]) - BitLen(x[2]), LAMBDA gap :
                 Let(IF gap > 0 THEN gap ELSE 0, LAMBDA s :
                     Let(BDivMod(BShl(x[2], s), y[2]), LAMBDA qr :
                         DyRound(x[1] * y[1],
                                 BAdd(BShl(qr[1], 1), IF qr[2] THEN <<1>> ELSE <<>>),
                                 x[3] - y[3] - s - 1)))))
\* -1, 0, 1 as a < b, a = b, a > b
DyCmp(a, b) == DySum(a, DyNeg(b))[1]
\* int(a): truncation towards zero
DyInt(a) ==
    Let(a, LAMBDA x :
        IF x[1] = 0 THEN 0
        ELSE x[1] * BToInt(IF x[3] >= 0 THEN BShl(x[2], x[3]) ELSE BShr(x[2], -x[3])))

\* A float of the program is <<n, d, double>>: the double it holds, as <<sign,
\* odd mantissa, exponent>>, and n/d, in lowest terms, the value the same
\* computation has in exact arithmetic.  Every comparison and every int()
\* reads the double.
Float(r, dy) == Let(r, LAMBDA v : <<v[1], v[2], dy>>)
Ideal(a) == Let(a, LAMBDA x : <<x[1], x[2]>>)
FloatOfInt(i) == Let(i, LAMBDA v : <<v, 1, DyOfInt(v)>>)
\* The literal n/d (0.03, 0.5, ...) and float("n/d"): the nearest double.
FloatOf(n, d) == Let2(n, d, LAMBDA v, w : Float(Rat(v, w), DyDiv(DyOfInt(v), DyOfInt(w))))
FNeg(a) == Let(a, LAMBDA x : Float(RatSub(RatOf(0), x), DyNeg(x[3])))
FAdd(a, b) == Let2(a, b, LAMBDA x, y : Float(RatAdd(x, y), DyAdd(x[3], y[3])))
FSub(a, b) == Let2(a, b, LAMBDA x, y : Float(RatSub(x, y), DySub(x[3], y[3])))
FMul(a, b) == Let2(a, b, LAMBDA x, y : Float(RatMul(x, y), DyMul(x[3], y[3])))
FDiv(a, b) == Let2(a, b, LAMBDA x, y : Float(RatDiv(x, y), DyDiv(x[3], y[3])))
FIsZero(a) == a[3][1] = 0
FLess(a, b) == DyCmp(a[3], b[3]) < 0
FGeq(a, b) == DyCmp(a[3], b[3]) >= 0
FInt(a) == DyInt(a[3])
\* The literal 0.5 of check_risk_limits.
MIN_CONFIDENCE == FloatOf(1, 2)
\* Config.load_config defaults of the risk section.
max_position_ratio == FloatOf(1, 10)
stop_loss_pct == FloatOf(3, 100)
take_profit_pct == FloatOf(7, 100)
max_daily_loss == FloatOf(2, 100)
\* RiskManager.daily_pnl: set to 0.0 in __init__, assigned nowhere else.
daily_pnl == FloatOfInt(0)

RECURSIVE SumFrom(_, _)
SumFrom(s, i) == IF i > Len(s) THEN 0 ELSE s[i] + SumFrom(s, i + 1)
SumSeq(s) == Let(s, LAMBDA v : SumFrom(v, 1))

\* Mutant: at the cap the oldest samples are kept and the new one is dropped.
update_price_history_keeps_oldest(pd, code, price) ==
    LET old == IF code \in DOMAIN pd THEN pd[code] ELSE <<>>
        appended == Append(old, price)
        kept == IF Len(appended) > HISTORY_MAX THEN SubSeq(appended, 1, HISTORY_MAX)
                ELSE appended
    IN [c \in DOMAIN pd \cup {code} |-> IF c = code THEN kept ELSE pd[c]]

\* DataManager.update_price_history: append, then keep the last 1000.
update_price_history(pd, code, price) ==
    LET old == IF code \in DOMAIN pd THEN pd[code] ELSE <<>>
        appended == Append(old, price)
        kept == IF Len(appended) > HISTORY_MAX
                THEN SubSeq(appended, Len(appended) - HISTORY_MAX + 1, Len(appended))
                ELSE appended
    IN [c \in DOMAIN pd \cup {code} |-> IF c = code THEN kept ELSE pd[c]]

\* DataManager.update_real_price, the current price it stores.
update_real_price(rd, code, price) ==
    [c \in DOMAIN rd \cup {code} |-> IF c = code THEN price ELSE rd[c]]

\* DataManager.get_current_price
get_current_price(rd, code) == IF code \in DOMAIN rd THEN rd[code] ELSE 0

\* Mutant: the deltas are taken over the last `period` prices, one delta short.
calculate_rsi_short_window(pd, code, n) ==
    IF code \notin DOMAIN pd \/ Len(pd[code]) < n + 1 THEN FloatOfInt(RSI_NEUTRAL)
    ELSE Let(SubSeq(pd[code], Len(pd[code]) - n + 1, Len(pd[code])), LAMBDA prices :
         Let([i \in 1..(Len(prices) - 1) |-> prices[i + 1] - prices[i]], LAMBDA deltas :
         Let2([i \in DOMAIN deltas |-> IF deltas[i] > 0 THEN deltas[i] ELSE 0],
              [i \in DOMAIN deltas |-> IF deltas[i] < 0 THEN -deltas[i] ELSE 0],
              LAMBDA gains, losses :
         IF SumSeq(losses) = 0 THEN FloatOfInt(RSI_FULL)
         ELSE
         Let2(FDiv(FloatOfInt(SumSeq(gains)), FloatOfInt(Len(gains))),
              FDiv(FloatOfInt(SumSeq(losses)), FloatOfInt(Len(losses))),
              LAMBDA avg_gain, avg_loss :
         Let(FDiv(avg_gain, avg_loss), LAMBDA rs :
             FSub(FloatOfInt(RSI_FULL),
                  FDiv(FloatOfInt(RSI_FULL), FAdd(FloatOfInt(1), rs))))))))

\* Mutant: the ratio of the averages is returned as a percentage, without the
\* 100 - 100/(1 + rs) normalisation.
calculate_rsi_unnormalised(pd, code, n) ==
    IF code \notin DOMAIN pd \/ Len(pd[code]) < n + 1 THEN FloatOfInt(RSI_NEUTRAL)
    ELSE Let(SubSeq(pd[code], Len(pd[code]) - n, Len(pd[code])), LAMBDA prices :
         Let([i \in 1..(Len(prices) - 1) |-> prices[i + 1] - prices[i]], LAMBDA deltas :
         Let2([i \in DOMAIN deltas |-> IF deltas[i] > 0 THEN deltas[i] ELSE 0],
              [i \in DOMAIN deltas |-> IF deltas[i] < 0 THEN -deltas[i] ELSE 0],
              LAMBDA gains, losses :
         Let2(FDiv(FloatOfInt(SumSeq(gains)), FloatOfInt(Len(gains))),
              FDiv(FloatOfInt(SumSeq(losses)), FloatOfInt(Len(losses))),
              LAMBDA avg_gain, avg_loss :
         IF FIsZero(avg_loss) THEN FloatOfInt(RSI_FULL)
         ELSE FMul(FloatOfInt(RSI_FULL), FDiv(avg_gain, avg_loss))))))

\* Mutant: the neutral default is given up one sample early, at n prices, and
\* the deltas of the n prices held are used.
calculate_rsi_one_sample_early(pd, code, n) ==
    IF code \notin DOMAIN pd \/ Len(pd[code]) < n THEN FloatOfInt(RSI_NEUTRAL)
    ELSE Let(SubSeq(pd[code], IF Len(pd[code]) - n < 1 THEN 1 ELSE Len(pd[code]) - n, Len(pd[code])), LAMBDA prices :
         Let([i \in 1..(Len(prices) - 1) |-> prices[i + 1] - prices[i]], LAMBDA deltas :
         Let2([i \in DOMAIN deltas |-> IF deltas[i] > 0 THEN deltas[i] ELSE 0],
              [i \in DOMAIN deltas |-> IF deltas[i] < 0 THEN -deltas[i] ELSE 0],
              LAMBDA gains, losses :
         IF SumSeq(losses) = 0 THEN FloatOfInt(RSI_FULL)
         ELSE
         Let2(FDiv(FloatOfInt(SumSeq(gains)), FloatOfInt(Len(gains))),
              FDiv(FloatOfInt(SumSeq(losses)), FloatOfInt(Len(losses))),
              LAMBDA avg_gain, avg_loss :
         Let(FDiv(avg_gain, avg_loss), LAMBDA rs :
             FSub(FloatOfInt(RSI_FULL),
                  FDiv(FloatOfInt(RSI_FULL), FAdd(FloatOfInt(1), rs))))))))

\* DataManager.calculate_rsi (n is its period argument, n >= 1): np.diff,
\* np.where, np.mean (the sum over the count) and the float expression.
calculate_rsi(pd, code, n) ==
    IF code \notin DOMAIN pd \/ Len(pd[code]) < n + 1 THEN FloatOfInt(RSI_NEUTRAL)
    ELSE Let(SubSeq(pd[code], Len(pd[code]) - n, Len(pd[code])), LAMBDA prices :
         Let([i \in 1..(Len(prices) - 1) |-> prices[i + 1] - prices[i]], LAMBDA deltas :
         Let2([i \in DOMAIN deltas |-> IF deltas[i] > 0 THEN deltas[i] ELSE 0],
              [i \in DOMAIN deltas |-> IF deltas[i] < 0 THEN -deltas[i] ELSE 0],
              LAMBDA gains, losses :
         Let2(FDiv(FloatOfInt(SumSeq(gains)), FloatOfInt(Len(gains))),
              FDiv(FloatOfInt(SumSeq(losses)), FloatOfInt(Len(losses))),
              LAMBDA avg_gain, avg_loss :
         IF FIsZero(avg_loss) THEN FloatOfInt(RSI_FULL)
         ELSE Let(FDiv(avg_gain, avg_loss), LAMBDA rs :
                  FSub(FloatOfInt(RSI_FULL),
                       FDiv(FloatOfInt(RSI_FULL), FAdd(FloatOfInt(1), rs))))))))

\* Strategy.__init__ / RSIStrategy.__init__: a registered strategy.  The base
\* class keeps the name it is given; an RSIStrategy is always named RSI_Strategy.
Strategy(name) == [class |-> "Strategy", name |-> name, period |-> 0, oversold |-> 0,
                   overbought |-> 0]
RSIStrategy(p, os, ob) == [class |-> "RSIStrategy", name |-> "RSI_Strategy", period |-> p,
                           oversold |-> os, overbought |-> ob]
HoldSignal == [action |-> "HOLD", confidence |-> FloatOfInt(0)]

\* Mutant: the confidence of a SELL is scaled by the oversold threshold.
generate_signal_sell_scaled_by_oversold(self, pd, rd, code) ==
    IF self.class = "Strategy" THEN HoldSignal
    ELSE
    Let2(calculate_rsi(pd, code, self.period), get_current_price(rd, code),
         LAMBDA rsi, current_price :
       IF FLess(rsi, FloatOfInt(self.oversold))
       THEN [action |-> "BUY",
             confidence |-> FDiv(FSub(FloatOfInt(self.oversold), rsi),
                                 FloatOfInt(self.oversold)),
             price |-> current_price, rsi |-> rsi]
       ELSE IF FLess(FloatOfInt(self.overbought), rsi)
       THEN [action |-> "SELL",
             confidence |-> FDiv(FSub(rsi, FloatOfInt(self.overbought)),
                                 FloatOfInt(self.oversold)),
             price |-> current_price, rsi |-> rsi]
       ELSE [action |-> "HOLD", confidence |-> FloatOfInt(0), price |-> current_price,
             rsi |-> rsi])

\* Strategy.generate_signal / RSIStrategy.generate_signal
generate_signal(self, pd, rd, code) ==
    IF self.class = "Strategy" THEN HoldSignal
    ELSE
    Let2(calculate_rsi(pd, code, self.period), get_current_price(rd, code),
         LAMBDA rsi, current_price :
       IF FLess(rsi, FloatOfInt(self.oversold))
       THEN [action |-> "BUY",
             confidence |-> FDiv(FSub(FloatOfInt(self.oversold), rsi),
                                 FloatOfInt(self.oversold)),
             price |-> current_price, rsi |-> rsi]
       ELSE IF FLess(FloatOfInt(self.overbought), rsi)
       THEN [action |-> "SELL",
             confidence |-> FDiv(FSub(rsi, FloatOfInt(self.overbought)),
                                 FloatOfInt(RSI_FULL - self.overbought)),
             price |-> current_price, rsi |-> rsi]
       ELSE [action |-> "HOLD", confidence |-> FloatOfInt(0), price |-> current_price,
             rsi |-> rsi])

\* The dict signals[strategy.name] = signal of generate_signals, as a sequence
\* of <<name, signal>> in the order the keys were first written: assigning to
\* a key that is present replaces its value and keeps its place.
DictIndex(dict, name) == FirstPosition(dict, LAMBDA e : e[1] = name)
DictSet(dict, name, value) ==
    IF DictIndex(dict, name) = 0 THEN Append(dict, <<name, value>>)
    ELSE [dict EXCEPT ![DictIndex(dict, name)] = <<name, value>>]
RECURSIVE collect_signals(_, _, _, _, _, _)
collect_signals(signals, strats, i, pd, rd, code) ==
    IF i > Len(strats) THEN signals
    ELSE Let2(generate_signal(strats[i], pd, rd, code), i + 1, LAMBDA signal, j :
              Let(DictSet(signals, strats[i].name, signal), LAMBDA written :
                  collect_signals(written, strats, j, pd, rd, code)))

\* StrategyEngine.generate_signals
generate_signals(strats, pd, rd, code) ==
    Let(collect_signals(<<>>, strats, 1, pd, rd, code), LAMBDA signals :
        IF signals # <<>> THEN signals[1][2] ELSE HoldSignal)

\* StrategyEngine.add_strategy
add_strategy(strats, strategy) == Append(strats, strategy)

\* TradingManager.load_strategies: config is the list config['trading']
\* ['strategies']; only entries named RSI_Strategy are registered.
RECURSIVE load_strategies(_, _, _)
load_strategies(strats, config, i) ==
    IF i > Len(config) THEN strats
    ELSE IF config[i].name = "RSI_Strategy"
    THEN load_strategies(add_strategy(strats, RSIStrategy(config[i].period, config[i].oversold,
                                                          config[i].overbought)),
                         config, i + 1)
    ELSE load_strategies(strats, config, i + 1)

\* Config.load_config: the default configuration's strategy list (no
\* config.yaml), and the list of a config.yaml that shortens the period.
default_strategies_config ==
    <<[name |-> "RSI_Strategy", period |-> DEFAULT_PERIOD, oversold |-> OVERSOLD,
       overbought |-> OVERBOUGHT]>>
yaml_strategies_config ==
    <<[name |-> "RSI_Strategy", period |-> period, oversold |-> OVERSOLD,
       overbought |-> OVERBOUGHT]>>

\* RiskManager.__init__ with the default configuration.
RiskManager(trades, pnl) ==
    [daily_pnl |-> pnl, daily_trades |-> trades, max_daily_loss |-> max_daily_loss,
     max_daily_trades |-> MAX_DAILY_TRADES]
risk_manager == RiskManager(daily_trades, daily_pnl)

\* Mutant: the daily trade count may reach the limit before trading stops.
check_risk_limits_trades_exclusive(self, signal, account_balance) ==
    IF self.daily_trades > self.max_daily_trades THEN FALSE
    ELSE IF FLess(self.daily_pnl,
                    FMul(FNeg(self.max_daily_loss), FloatOfInt(account_balance)))
    THEN FALSE
    ELSE IF FLess(signal.confidence, MIN_CONFIDENCE) THEN FALSE
    ELSE TRUE

\* RiskManager.check_risk_limits
check_risk_limits(self, signal, account_balance) ==
    IF self.daily_trades >= self.max_daily_trades THEN FALSE
    ELSE IF FLess(self.daily_pnl,
                    FMul(FNeg(self.max_daily_loss), FloatOfInt(account_balance)))
    THEN FALSE
    ELSE IF FLess(signal.confidence, MIN_CONFIDENCE) THEN FALSE
    ELSE TRUE

\* Mutant: the size is not scaled by the signal's confidence.
calculate_position_size_ignores_confidence(signal, account_balance, current_price) ==
    IF signal.action # "BUY" THEN [quantity |-> 0, raised |-> FALSE]
    ELSE IF current_price = 0 THEN [quantity |-> 0, raised |-> TRUE]
    ELSE LET max_investment == FMul(FloatOfInt(account_balance), max_position_ratio)
         IN Let(FInt(FDiv(max_investment, FloatOfInt(current_price))), LAMBDA quantity :
                [quantity |-> IF quantity > 0 THEN quantity ELSE 0, raised |-> FALSE])

\* RiskManager.calculate_position_size: the quantity, or raised (division by a
\* current price of 0).
calculate_position_size(signal, account_balance, current_price) ==
    IF signal.action # "BUY" THEN [quantity |-> 0, raised |-> FALSE]
    ELSE IF current_price = 0 THEN [quantity |-> 0, raised |-> TRUE]
    ELSE LET max_investment == FMul(FloatOfInt(account_balance), max_position_ratio)
             adjusted_investment == FMul(max_investment, signal.confidence)
         IN Let(FInt(FDiv(adjusted_investment, FloatOfInt(current_price))), LAMBDA quantity :
                [quantity |-> IF quantity > 0 THEN quantity ELSE 0, raised |-> FALSE])

\* Mutant: a loss of exactly the threshold does not trigger.
should_stop_loss_exclusive(entry_price, current_price, position_type) ==
    LET loss_ratio == IF position_type = "LONG"
                      THEN FDiv(FSub(entry_price, FloatOfInt(current_price)), entry_price)
                      ELSE FDiv(FSub(FloatOfInt(current_price), entry_price), entry_price)
    IN FLess(stop_loss_pct, loss_ratio)

\* RiskManager.should_stop_loss / should_take_profit (entry_price # 0).
should_stop_loss(entry_price, current_price, position_type) ==
    LET loss_ratio == IF position_type = "LONG"
                      THEN FDiv(FSub(entry_price, FloatOfInt(current_price)), entry_price)
                      ELSE FDiv(FSub(FloatOfInt(current_price), entry_price), entry_price)
    IN FGeq(loss_ratio, stop_loss_pct)
should_take_profit(entry_price, current_price, position_type) ==
    LET profit_ratio == IF position_type = "LONG"
                        THEN FDiv(FSub(FloatOfInt(current_price), entry_price), entry_price)
                        ELSE FDiv(FSub(entry_price, FloatOfInt(current_price)), entry_price)
    IN FGeq(profit_ratio, take_profit_pct)

\* OrderManager.positions is an insertion-ordered dict: a sequence of entries.
PositionIndex(pos, code) == FirstPosition(pos, LAMBDA e : e.code = code)
EmptyPosition(code) == [code |-> code, quantity |-> 0, avg_price |-> FloatOfInt(0)]
position_get(pos, code) ==
    IF PositionIndex(pos, code) = 0 THEN EmptyPosition(code) ELSE pos[PositionIndex(pos, code)]

\* Mutant: a sell that empties the position keeps its average price.
update_position_keeps_avg(pos, code, action, quantity, price) ==
    LET with == IF PositionIndex(pos, code) = 0 THEN Append(pos, EmptyPosition(code)) ELSE pos
        i == PositionIndex(with, code)
        position == with[i]
        bought == position.quantity + quantity
        total_value == FAdd(FMul(FloatOfInt(position.quantity), position.avg_price),
                              FloatOfInt(quantity * price))
        sold == position.quantity - quantity
    IN IF action = "BUY"
       THEN [with EXCEPT ![i] = [@ EXCEPT !.quantity = bought,
                                          !.avg_price = IF bought > 0
                                                        THEN FDiv(total_value, FloatOfInt(bought))
                                                        ELSE FloatOfInt(0)]]
       ELSE IF action = "SELL"
       THEN [with EXCEPT ![i] = [@ EXCEPT !.quantity = IF sold <= 0 THEN 0 ELSE sold]]
       ELSE with

\* Mutant: a buy averages the old average and the fill price, unweighted.
update_position_unweighted(pos, code, action, quantity, price) ==
    LET with == IF PositionIndex(pos, code) = 0 THEN Append(pos, EmptyPosition(code)) ELSE pos
        i == PositionIndex(with, code)
        position == with[i]
        bought == position.quantity + quantity
        sold == position.quantity - quantity
    IN IF action = "BUY"
       THEN [with EXCEPT ![i] = [@ EXCEPT !.quantity = bought,
                                          !.avg_price = IF bought > 0
                                                        THEN FDiv(FAdd(position.avg_price,
                                                                           FloatOfInt(price)),
                                                                    FloatOfInt(2))
                                                        ELSE FloatOfInt(0)]]
       ELSE IF action = "SELL"
       THEN [with EXCEPT ![i] = IF sold <= 0
                                THEN [@ EXCEPT !.quantity = 0, !.avg_price = FloatOfInt(0)]
                                ELSE [@ EXCEPT !.quantity = sold]]
       ELSE with

\* OrderManager.update_position
update_position(pos, code, action, quantity, price) ==
    LET with == IF PositionIndex(pos, code) = 0 THEN Append(pos, EmptyPosition(code)) ELSE pos
        i == PositionIndex(with, code)
        position == with[i]
        bought == position.quantity + quantity
        total_value == FAdd(FMul(FloatOfInt(position.quantity), position.avg_price),
                              FloatOfInt(quantity * price))
        sold == position.quantity - quantity
    IN IF action = "BUY"
       THEN [with EXCEPT ![i] = [@ EXCEPT !.quantity = bought,
                                          !.avg_price = IF bought > 0
                                                        THEN FDiv(total_value, FloatOfInt(bought))
                                                        ELSE FloatOfInt(0)]]
       ELSE IF action = "SELL"
       THEN [with EXCEPT ![i] = IF sold <= 0
                                THEN [@ EXCEPT !.quantity = 0, !.avg_price = FloatOfInt(0)]
                                ELSE [@ EXCEPT !.quantity = sold]]
       ELSE with

\* What happened in a trading step: the handler, the code and signal it worked
\* on, whether check_risk_limits passed, the orders submitted (simulated in test
\* mode, else passed to api.send_order), the fills applied to the position map
\* in this step, and how many were applied so far.
TradeOp(op, code, action, risk_ok, submitted, fill, fills) ==
    [op |-> op, code |-> code, action |-> action, risk_ok |-> risk_ok,
     submitted |-> submitted, fill |-> fill, fills |-> fills]

\* fn_call: the function a step has called, with its arguments and, in ret, its
\* result once it has returned.
Call(fn, args, ret) == [args |-> args, fn |-> fn, ret |-> ret]
NoCall == Call("", <<>>, <<>>)

\* TradingManager.__init__ with the configured trading mode and strategy list.
TradingManagerFields(mode, strategies_config) ==
    /\ trading_mode = mode
    /\ is_trading = FALSE
    /\ real_data = [c \in {} |-> 0]
    /\ price_data = [c \in {} |-> <<>>]
    /\ positions = <<>>
    /\ order_sequence = 0
    /\ trader_pending_orders = <<>>
    /\ trade_op = TradeOp("init", "", "HOLD", FALSE, <<>>, <<>>, 0)
    /\ strategies = load_strategies(<<>>, strategies_config, 1)
    /\ api_login_event_loop = "None"
TradingManagerInitOf(mode, strategies_config) ==
    TradingManagerFields(mode, strategies_config) /\ fn_call = NoCall
TradingManagerInit(mode) == TradingManagerInitOf(mode, default_strategies_config)


----------------------------------------------------------------------------
\* Where control is.
Top == call_stack[Len(call_stack)]
TopLoop ==
    IF Top.kind = "LOGIN" THEN login_event_loop
    ELSE IF Top.kind = "TR" THEN pending_tr_requests[TrIndex(pending_tr_requests, Top.id)].event_loop
    ELSE pending_orders[OrderIndex(pending_orders, Top.id)].event_loop
Idle == call_stack = <<>>
\* An event loop is dispatching: the host's loop, or the innermost nested loop
\* while it has not been told to exit.
Dispatching == IF Idle THEN TRUE ELSE isRunning(TopLoop)

\* last_op: the operation of the step; its key (the ticket id of a call, return or
\* timeout, the request name or screen number an event carries); the stock code
\* of an order or fill; and the value returned to the caller, if the step returns.
Op(op, key, code, ret) == [op |-> op, key |-> key, code |-> code, ret |-> ret]
Suspended == [type |-> "suspended", success |-> FALSE, timeout |-> FALSE, error |-> FALSE]

ComponentInit ==
    /\ is_connected = FALSE
    /\ login_event_loop = "None"
    /\ tr_screen_counter = TR_SCREEN_START
    /\ order_screen_counter = ORDER_SCREEN_START
    /\ pending_tr_requests = <<>>
    /\ pending_orders = <<>>
    /\ active_timers = {}
    /\ call_stack = <<>>
    /\ next_uid = 1
    /\ last_op = Op("init", 0, "", NoneResult)

\* The program after construction; the trader is in its default mode.
Init == ComponentInit /\ TradingManagerInit("test")

----------------------------------------------------------------------------
\* KiwoomComponent.login up to exec_ (called by main.autoLoginKiwoom, at top level).
Login(d) ==
    /\ UNCHANGED trade_vars
    /\ Idle
    /\ IF is_connected
       THEN /\ last_op' = Op("login", 0, "", BoolResult(TRUE))
            /\ UNCHANGED <<login_event_loop, call_stack>>
       ELSE IF ~d.raised /\ d.ret = 0
       THEN /\ login_event_loop' = "running"
            /\ call_stack' = Append(call_stack, [kind |-> "LOGIN", id |-> 0])
            /\ last_op' = Op("login", 0, "", Suspended)
       ELSE /\ login_event_loop' = "stopped"
            /\ last_op' = Op("login", 0, "", BoolResult(FALSE))
            /\ UNCHANGED call_stack
    /\ UNCHANGED <<is_connected, tr_screen_counter, order_screen_counter,
                   pending_tr_requests, pending_orders, active_timers, next_uid>>

\* Mutant: after the wait login reports success whatever the connect result.
LoginReturn_reports_success ==
    /\ UNCHANGED trade_vars
    /\ ~Idle
    /\ Top.kind = "LOGIN"
    /\ ~isRunning(login_event_loop)
    /\ call_stack' = SubSeq(call_stack, 1, Len(call_stack) - 1)
    /\ last_op' = Op("login_return", 0, "", BoolResult(TRUE))
    /\ UNCHANGED <<is_connected, login_event_loop, tr_screen_counter, order_screen_counter,
                   pending_tr_requests, pending_orders, active_timers, next_uid>>

\* KiwoomComponent.login after exec_: returns self._is_connected.
LoginReturn ==
    /\ UNCHANGED trade_vars
    /\ ~Idle
    /\ Top.kind = "LOGIN"
    /\ ~isRunning(login_event_loop)
    /\ call_stack' = SubSeq(call_stack, 1, Len(call_stack) - 1)
    /\ last_op' = Op("login_return", 0, "", BoolResult(is_connected))
    /\ UNCHANGED <<is_connected, login_event_loop, tr_screen_counter, order_screen_counter,
                   pending_tr_requests, pending_orders, active_timers, next_uid>>

\* KiwoomComponent._event_connect
EventConnect(err_code) ==
    /\ UNCHANGED trade_vars
    /\ Dispatching
    /\ is_connected' = (err_code = 0)
    /\ login_event_loop' = IF login_event_loop = "None" THEN "None" ELSE loop_exit(login_event_loop)
    /\ last_op' = Op("event_connect", err_code, "", NoneResult)
    /\ UNCHANGED <<tr_screen_counter, order_screen_counter, pending_tr_requests,
                   pending_orders, active_timers, call_stack, next_uid>>

\* KiwoomComponent.request_tr(tr_code, inputs, callback) up to exec_ (or to its
\* return, when it does not wait).  Line 374 passes (tr_code, inputs, callback)
\* by position to create_request(request_id, tr_code, inputs, callback = None).
\* The ticket is stored and its timer started (377-384); CommRqData runs (387-393),
\* and _receive_tr_data runs inside it if the control raises the event there
\* (early), on an event loop that is not running yet; on status 0 exec_ is
\* entered (399), whatever the handler did before.
RequestTr(callback, d, early) ==
    /\ UNCHANGED trade_vars
    /\ Dispatching
    /\ IF ~is_connected
       THEN /\ last_op' = Op("request_tr", 0, "", NoneResult)
            /\ UNCHANGED <<tr_screen_counter, pending_tr_requests, pending_orders,
                           active_timers, call_stack, next_uid>>
       ELSE LET request_info == create_request(next_uid, tr_screen_counter,
                                               TR_CODE, INPUTS, callback, NoCallback)
                stored == Tables(Append(pending_tr_requests, request_info), pending_orders,
                                 active_timers \cup {<<"TR", next_uid>>})
                handled == IF early.event = "OnReceiveTrData"
                           THEN receive_tr_data(stored.tr, next_uid, early.err_code,
                                                early.extract_raises)
                           ELSE stored.tr
                waiting == Tables([handled EXCEPT ![Len(handled)].event_loop = "running"],
                                  stored.orders, stored.timers)
                after == IF ~d.raised /\ d.ret = 0 THEN waiting
                         ELSE cleanup_tr_request(Tables(handled, stored.orders, stored.timers),
                                                 next_uid)
            IN /\ tr_screen_counter' = next_screen(tr_screen_counter, TR_SCREEN_START)
               /\ next_uid' = next_uid + 1
               /\ pending_tr_requests' = after.tr
               /\ pending_orders' = after.orders
               /\ active_timers' = after.timers
               /\ call_stack' = IF ~d.raised /\ d.ret = 0
                                THEN Append(call_stack, [kind |-> "TR", id |-> next_uid])
                                ELSE call_stack
               /\ last_op' = Op("request_tr", next_uid, "",
                                IF ~d.raised /\ d.ret = 0 THEN Suspended ELSE NoneResult)
    /\ UNCHANGED <<is_connected, login_event_loop, order_screen_counter>>

\* KiwoomComponent.request_tr after exec_: the result is read, the ticket cleaned up.
RequestTrReturn ==
    /\ UNCHANGED trade_vars
    /\ ~Idle
    /\ Top.kind = "TR"
    /\ ~isRunning(TopLoop)
    /\ LET i == TrIndex(pending_tr_requests, Top.id)
           after == cleanup_tr_request(Tables(pending_tr_requests, pending_orders, active_timers),
                                       Top.id)
       IN /\ last_op' = Op("request_tr_return", Top.id, "", pending_tr_requests[i].result)
          /\ pending_tr_requests' = after.tr
          /\ pending_orders' = after.orders
          /\ active_timers' = after.timers
    /\ call_stack' = SubSeq(call_stack, 1, Len(call_stack) - 1)
    /\ UNCHANGED <<is_connected, login_event_loop, tr_screen_counter, order_screen_counter,
                   next_uid>>

\* Mutant: send_order_sync does not look at the login state.
SendOrderSync_without_login_check(code, d, early) ==
    /\ UNCHANGED trade_vars
    /\ Dispatching
    /\ LET order_mapping == create_order_request(next_uid, order_screen_counter, code)
           stored == Tables(pending_tr_requests, Append(pending_orders, order_mapping),
                            active_timers \cup {<<"ORDER", next_uid>>})
           handled == IF early = "OnReceiveMsg"
                      THEN receive_msg(stored.orders, order_screen_counter)
                      ELSE IF early = "OnReceiveChejanData"
                      THEN receive_chejan_data(stored.orders, "0", code)
                      ELSE stored.orders
           waiting == Tables(stored.tr,
                             [handled EXCEPT ![Len(handled)].event_loop = "running"],
                             stored.timers)
           after == IF ~d.raised /\ d.ret = 0 THEN waiting
                    ELSE cleanup_order_request(Tables(stored.tr, handled, stored.timers),
                                               next_uid)
       IN /\ order_screen_counter' = next_screen(order_screen_counter, ORDER_SCREEN_START)
          /\ next_uid' = next_uid + 1
          /\ pending_tr_requests' = after.tr
          /\ pending_orders' = after.orders
          /\ active_timers' = after.timers
          /\ call_stack' = IF ~d.raised /\ d.ret = 0
                           THEN Append(call_stack, [kind |-> "ORDER", id |-> next_uid])
                           ELSE call_stack
          /\ last_op' = Op("send_order_sync", next_uid, code,
                           IF d.raised THEN ExceptionResult
                           ELSE IF d.ret = 0 THEN Suspended ELSE DispatchFailedResult)
    /\ UNCHANGED <<is_connected, login_event_loop, tr_screen_counter>>

\* KiwoomComponent.send_order_sync up to exec_ (or to its return, when it does not
\* wait).  The ticket is stored and its timer started (575-580); SendOrder runs
\* (586-588), and _receive_msg for this order's screen number or
\* _receive_chejan_data for a fill on its stock code runs inside it if the
\* control raises the event there (early), on an event loop that is not running
\* yet; on status 0 exec_ is entered (595), whatever the handler did before.
SendOrderSync(code, d, early) ==
    /\ UNCHANGED trade_vars
    /\ Dispatching
    /\ IF ~is_connected
       THEN /\ last_op' = Op("send_order_sync", 0, code, NotLoggedInResult)
            /\ UNCHANGED <<order_screen_counter, pending_tr_requests, pending_orders,
                           active_timers, call_stack, next_uid>>
       ELSE LET order_mapping == create_order_request(next_uid, order_screen_counter, code)
                stored == Tables(pending_tr_requests, Append(pending_orders, order_mapping),
                                 active_timers \cup {<<"ORDER", next_uid>>})
                handled == IF early = "OnReceiveMsg"
                           THEN receive_msg(stored.orders, order_screen_counter)
                           ELSE IF early = "OnReceiveChejanData"
                           THEN receive_chejan_data(stored.orders, "0", code)
                           ELSE stored.orders
                waiting == Tables(stored.tr,
                                  [handled EXCEPT ![Len(handled)].event_loop = "running"],
                                  stored.timers)
                after == IF ~d.raised /\ d.ret = 0 THEN waiting
                         ELSE cleanup_order_request(Tables(stored.tr, handled, stored.timers),
                                                    next_uid)
            IN /\ order_screen_counter' = next_screen(order_screen_counter, ORDER_SCREEN_START)
               /\ next_uid' = next_uid + 1
               /\ pending_tr_requests' = after.tr
               /\ pending_orders' = after.orders
               /\ active_timers' = after.timers
               /\ call_stack' = IF ~d.raised /\ d.ret = 0
                                THEN Append(call_stack, [kind |-> "ORDER", id |-> next_uid])
                                ELSE call_stack
               /\ last_op' = Op("send_order_sync", next_uid, code,
                                IF d.raised THEN ExceptionResult
                                ELSE IF d.ret = 0 THEN Suspended ELSE DispatchFailedResult)
    /\ UNCHANGED <<is_connected, login_event_loop, tr_screen_counter>>

\* KiwoomComponent.send_order_sync after exec_.
SendOrderSyncReturn ==
    /\ UNCHANGED trade_vars
    /\ ~Idle
    /\ Top.kind = "ORDER"
    /\ ~isRunning(TopLoop)
    /\ LET i == OrderIndex(pending_orders, Top.id)
           after == cleanup_order_request(Tables(pending_tr_requests, pending_orders,
                                                 active_timers), Top.id)
       IN /\ last_op' = Op("send_order_sync_return", Top.id, pending_orders[i].code,
                           pending_orders[i].result)
          /\ pending_tr_requests' = after.tr
          /\ pending_orders' = after.orders
          /\ active_timers' = after.timers
    /\ call_stack' = SubSeq(call_stack, 1, Len(call_stack) - 1)
    /\ UNCHANGED <<is_connected, login_event_loop, tr_screen_counter, order_screen_counter,
                   next_uid>>

\* A ticket's single-shot QTimer fires: the lambda connected in request_tr runs.
TrTimeout(request_id) ==
    /\ UNCHANGED trade_vars
    /\ Dispatching
    /\ <<"TR", request_id>> \in active_timers
    /\ active_timers' = active_timers \ {<<"TR", request_id>>}
    /\ pending_tr_requests' = handle_tr_timeout(pending_tr_requests, request_id)
    /\ last_op' = Op("tr_timeout", request_id, "", NoneResult)
    /\ UNCHANGED <<is_connected, login_event_loop, tr_screen_counter, order_screen_counter,
                   pending_orders, call_stack, next_uid>>

\* A ticket's single-shot QTimer fires: the lambda connected in send_order_sync runs.
OrderTimeout(order_id) ==
    /\ UNCHANGED trade_vars
    /\ Dispatching
    /\ <<"ORDER", order_id>> \in active_timers
    /\ active_timers' = active_timers \ {<<"ORDER", order_id>>}
    /\ pending_orders' = handle_order_timeout(pending_orders, order_id)
    /\ last_op' = Op("order_timeout", order_id, "", NoneResult)
    /\ UNCHANGED <<is_connected, login_event_loop, tr_screen_counter, order_screen_counter,
                   pending_tr_requests, call_stack, next_uid>>

\* The broker's OnReceiveTrData event.
ReceiveTrData(rq_name, err_code, extract_raises) ==
    /\ UNCHANGED trade_vars
    /\ Dispatching
    /\ pending_tr_requests' = receive_tr_data(pending_tr_requests, rq_name, err_code,
                                              extract_raises)
    /\ last_op' = Op("receive_tr_data", rq_name, "", NoneResult)
    /\ UNCHANGED <<is_connected, login_event_loop, tr_screen_counter, order_screen_counter,
                   pending_orders, active_timers, call_stack, next_uid>>

\* The broker's OnReceiveMsg event.
ReceiveMsg(screen_no) ==
    /\ UNCHANGED trade_vars
    /\ Dispatching
    /\ pending_orders' = receive_msg(pending_orders, screen_no)
    /\ last_op' = Op("receive_msg", screen_no, "", NoneResult)
    /\ UNCHANGED <<is_connected, login_event_loop, tr_screen_counter, order_screen_counter,
                   pending_tr_requests, active_timers, call_stack, next_uid>>

\* The broker's OnReceiveChejanData event.
ReceiveChejanData(gubun, stock_code) ==
    /\ UNCHANGED trade_vars
    /\ Dispatching
    /\ pending_orders' = receive_chejan_data(pending_orders, gubun, stock_code)
    /\ last_op' = Op("receive_chejan_data", 0, stock_code, NoneResult)
    /\ UNCHANGED <<is_connected, login_event_loop, tr_screen_counter, order_screen_counter,
                   pending_tr_requests, active_timers, call_stack, next_uid>>

\* The broker's OnReceiveChejanData event for a fill of the order order_id, one
\* of the orders it has accepted: the event carries that order's stock code.
ReceiveChejanFill(gubun, order_id) ==
    /\ UNCHANGED trade_vars
    /\ Dispatching
    /\ OrderIndex(pending_orders, order_id) # 0
    /\ LET stock_code == pending_orders[OrderIndex(pending_orders, order_id)].code
       IN /\ pending_orders' = receive_chejan_data(pending_orders, gubun, stock_code)
          /\ last_op' = Op("receive_chejan_data", order_id, stock_code, NoneResult)
    /\ UNCHANGED <<is_connected, login_event_loop, tr_screen_counter, order_screen_counter,
                   pending_tr_requests, active_timers, call_stack, next_uid>>

\* The keys the broker may send: those of the tickets in the tables, and an unknown one.
TrNames == {pending_tr_requests[i].request_id : i \in 1..Len(pending_tr_requests)} \cup {OrphanKey}
MsgScreens == {pending_orders[i].screen_no : i \in 1..Len(pending_orders)} \cup {OrphanKey}

CallAllowed == Len(call_stack) < MaxDepth /\ next_uid <= MaxCalls

Next ==
    \/ \E d \in DispatchOutcomes : Login(d)
    \/ LoginReturn
    \/ \E c \in ConnectCodes : EventConnect(c)
    \/ CallAllowed /\ \E callback \in Callbacks, d \in DispatchOutcomes, early \in TrEarlyEvents :
            RequestTr(callback, d, early)
    \/ RequestTrReturn
    \/ CallAllowed /\ \E code \in Codes, d \in DispatchOutcomes, early \in OrderEarlyEvents :
            SendOrderSync(code, d, early)
    \/ SendOrderSyncReturn
    \/ \E id \in 1..MaxCalls : TrTimeout(id)
    \/ \E id \in 1..MaxCalls : OrderTimeout(id)
    \/ \E rq \in TrNames, e \in ErrCodes, x \in BOOLEAN : ReceiveTrData(rq, e, x)
    \/ \E s \in MsgScreens : ReceiveMsg(s)
    \/ \E g \in {"0", "1"}, c \in Codes \cup {OtherCode} : ReceiveChejanData(g, c)

Spec == Init /\ [][Next]_vars

\* The event loop's scheduling: a started QTimer fires once an event loop
\* dispatches, and exec_ returns once exit() was called on the innermost loop
\* after exec_ was entered.
Fairness ==
    /\ WF_vars(RequestTrReturn)
    /\ WF_vars(SendOrderSyncReturn)
    /\ \A id \in 1..MaxCalls : WF_vars(TrTimeout(id)) /\ WF_vars(OrderTimeout(id))

LiveSpec == Init /\ [][Next]_vars /\ Fairness

----------------------------------------------------------------------------
\* The session right after a successful login() at top level.
LoggedIn ==
    /\ is_connected = TRUE
    /\ login_event_loop = "stopped"
    /\ tr_screen_counter = TR_SCREEN_START
    /\ order_screen_counter = ORDER_SCREEN_START
    /\ pending_tr_requests = <<>>
    /\ pending_orders = <<>>
    /\ active_timers = {}
    /\ call_stack = <<>>
    /\ next_uid = 1
    /\ last_op = Op("login_return", 0, "", BoolResult(TRUE))
    /\ TradingManagerInit("test")

\* Orders only, from the logged-in session: one order waits while further
\* send_order_sync calls are made from inside its wait, until the screen counter
\* has gone round once.
WrapCalls == SCREEN_MAX - ORDER_SCREEN_START + 2
WrapAllowed ==
    /\ Len(call_stack) < 2
    /\ next_uid <= WrapCalls
    /\ IF Idle THEN next_uid = 1 ELSE TRUE
\* Inside the first order's wait the broker refuses further dispatches (-308,
\* order rate limit) until the counter is about to come round.
WrapDispatch ==
    IF Idle \/ next_uid = WrapCalls THEN {[raised |-> FALSE, ret |-> 0]}
    ELSE {[raised |-> FALSE, ret |-> -308]}

NextWrap ==
    \/ WrapAllowed /\ \E d \in WrapDispatch : SendOrderSync("005930", d, "None")
    \/ SendOrderSyncReturn
    \/ \E id \in {1, WrapCalls} : OrderTimeout(id)
    \/ \E s \in MsgScreens : ReceiveMsg(s)

SpecWrap == LoggedIn /\ [][NextWrap]_vars

\* Orders only, from the logged-in session: each send_order_sync is called from
\* inside the wait of the one before.
DeepDepth == MAX_CONCURRENT_ORDERS + 1
DeepAllowed == Len(call_stack) < DeepDepth /\ next_uid <= DeepDepth

NextDeep ==
    \/ DeepAllowed /\ SendOrderSync("005930", [raised |-> FALSE, ret |-> 0], "None")
    \/ SendOrderSyncReturn
    \/ \E id \in 1..DeepDepth : OrderTimeout(id)

SpecDeep == LoggedIn /\ [][NextDeep]_vars

\* Orders and the events that complete them, from the logged-in session; every
\* fill event belongs to one of the orders the broker holds.
NextRouting ==
    \/ CallAllowed /\ \E code \in Codes, d \in DispatchOutcomes, early \in OrderEarlyEvents :
            SendOrderSync(code, d, early)
    \/ SendOrderSyncReturn
    \/ \E id \in 1..MaxCalls : OrderTimeout(id)
    \/ \E screen \in MsgScreens : ReceiveMsg(screen)
    \/ \E gubun \in {"0", "1"}, id \in 1..MaxCalls : ReceiveChejanFill(gubun, id)
SpecRouting == LoggedIn /\ [][NextRouting]_vars

\* Requests and orders with the events that answer them, from the logged-in
\* session: the answering event may come while the dispatch runs.
NextEarly ==
    \/ CallAllowed /\ \E callback \in Callbacks, d \in DispatchOutcomes, early \in TrEarlyEvents :
            RequestTr(callback, d, early)
    \/ CallAllowed /\ \E code \in Codes, d \in DispatchOutcomes, early \in OrderEarlyEvents :
            SendOrderSync(code, d, early)
    \/ RequestTrReturn
    \/ SendOrderSyncReturn
    \/ \E id \in 1..MaxCalls : TrTimeout(id)
    \/ \E id \in 1..MaxCalls : OrderTimeout(id)
    \/ \E rq \in TrNames, e \in ErrCodes, x \in BOOLEAN : ReceiveTrData(rq, e, x)
    \/ \E screen \in MsgScreens : ReceiveMsg(screen)
SpecEarly == LoggedIn /\ [][NextEarly]_vars

----------------------------------------------------------------------------
\* auto.py: the handlers of the trading system.

\* The order manager's state as the handlers of one step transform it, with the
\* orders the step submitted and the fills it applied.
OrderState(pos, seq, pending, submitted, fill) ==
    [positions |-> pos, order_sequence |-> seq, pending_orders |-> pending,
     submitted |-> submitted, fill |-> fill]
Submission(action, code, quantity, price, simulated) ==
    [action |-> action, code |-> code, quantity |-> quantity, price |-> price,
     simulated |-> simulated]

\* A call of update_position, with the quantity held before it.
Fill(code, action, quantity, price, held) ==
    [code |-> code, action |-> action, quantity |-> quantity, price |-> price, held |-> held]

\* OrderManager.send_buy_order / send_sell_order: the order goes to
\* api.send_order; it is recorded as pending when the broker returns 0.
api_send_order(st, action, code, quantity, price, d) ==
    LET order_id == st.order_sequence + 1
        order == [order_id |-> order_id, code |-> code, action |-> action,
                  quantity |-> quantity, price |-> price]
    IN [st EXCEPT !.order_sequence = order_id,
                  !.pending_orders = IF ~d.raised /\ d.ret = 0 THEN Append(@, order) ELSE @,
                  !.submitted = Append(@, Submission(action, code, quantity, price, FALSE))]
send_buy_order(st, code, quantity, price, d) == api_send_order(st, "BUY", code, quantity, price, d)
send_sell_order(st, code, quantity, price, d) == api_send_order(st, "SELL", code, quantity, price, d)

\* execute_signal in test mode: the order is simulated on the position map.
simulate_order(st, action, code, quantity, price) ==
    [st EXCEPT !.positions = update_position(@, code, action, quantity, price),
               !.submitted = Append(@, Submission(action, code, quantity, price, TRUE)),
               !.fill = Append(@, Fill(code, action, quantity, price,
                                       position_get(st.positions, code).quantity))]

\* TradingManager.execute_signal
execute_signal(st, mode, code, signal, account_balance, d) ==
    LET current_price == signal.price
        held == position_get(st.positions, code).quantity
    IN IF signal.action = "BUY"
       THEN Let(calculate_position_size(signal, account_balance, current_price), LAMBDA size :
            IF size.raised THEN st
            ELSE IF size.quantity > 0
            THEN IF mode = "test"
                 THEN simulate_order(st, "BUY", code, size.quantity, current_price)
                 ELSE send_buy_order(st, code, size.quantity, current_price, d)
            ELSE st)
       ELSE IF signal.action = "SELL"
       THEN IF held > 0
            THEN IF mode = "test"
                 THEN simulate_order(st, "SELL", code, held, current_price)
                 ELSE send_sell_order(st, code, held, current_price, d)
            ELSE st
       ELSE st

\* Mutant: the signal is executed without asking check_risk_limits.
process_signal_no_risk_check(st, mode, code, signal, d) ==
    IF signal.action = "HOLD" THEN st
    ELSE execute_signal(st, mode, code, signal, ACCOUNT_BALANCE, d)

\* TradingManager.process_trading_signal from the generated signal on.
process_signal(st, mode, code, signal, d) ==
    IF signal.action = "HOLD" THEN st
    ELSE IF ~check_risk_limits(risk_manager, signal, ACCOUNT_BALANCE) THEN st
    ELSE execute_signal(st, mode, code, signal, ACCOUNT_BALANCE, d)

\* TradingManager.process_trading_signal
process_trading_signal(st, mode, pd, rd, code, d) ==
    Let(generate_signals(strategies, pd, rd, code), LAMBDA signal :
        process_signal(st, mode, code, signal, d))

\* TradingManager.is_market_time (ignore_market_time is off); market_open: the
\* clock reads a weekday between market_start_time and market_end_time.
is_market_time(mode, market_open) ==
    IF mode = "24hour" THEN TRUE
    ELSE IF mode = "test" THEN TRUE
    ELSE market_open

\* Mutant: the monitor looks at the stop-loss only.
RECURSIVE check_positions_stop_loss_only(_, _, _, _)
check_positions_stop_loss_only(st, rd, i, ds) ==
    IF i > Len(st.positions) THEN st
    ELSE LET position == st.positions[i]
             current_price == get_current_price(rd, position.code)
         IN IF position.quantity = 0 THEN check_positions_stop_loss_only(st, rd, i + 1, ds)
            ELSE IF current_price = 0 THEN check_positions_stop_loss_only(st, rd, i + 1, ds)
            ELSE IF FIsZero(position.avg_price) THEN st
            ELSE IF should_stop_loss(position.avg_price, current_price, "LONG")
            THEN check_positions_stop_loss_only(
                     send_sell_order(st, position.code, position.quantity, current_price,
                                     ds[Len(st.submitted) + 1]),
                     rd, i + 1, ds)
            ELSE check_positions_stop_loss_only(st, rd, i + 1, ds)

\* TradingManager.check_positions from entry i of the position map on.  A
\* position with a quantity and an average price of 0 raises in
\* should_stop_loss, which ends the loop.  ds: the broker's answers to the
\* orders of this run, one per call of send_sell_order.
RECURSIVE check_positions(_, _, _, _)
check_positions(st, rd, i, ds) ==
    IF i > Len(st.positions) THEN st
    ELSE LET position == st.positions[i]
             current_price == get_current_price(rd, position.code)
         IN IF position.quantity = 0 THEN check_positions(st, rd, i + 1, ds)
            ELSE IF current_price = 0 THEN check_positions(st, rd, i + 1, ds)
            ELSE IF FIsZero(position.avg_price) THEN st
            ELSE IF should_stop_loss(position.avg_price, current_price, "LONG")
            THEN check_positions(send_sell_order(st, position.code, position.quantity,
                                                 current_price, ds[Len(st.submitted) + 1]),
                                 rd, i + 1, ds)
            ELSE IF should_take_profit(position.avg_price, current_price, "LONG")
            THEN check_positions(send_sell_order(st, position.code, position.quantity,
                                                 current_price, ds[Len(st.submitted) + 1]),
                                 rd, i + 1, ds)
            ELSE check_positions(st, rd, i + 1, ds)

\* OrderManager.pending_orders[order_id]
PendingOrderIndex(pending, order_id) == FirstPosition(pending, LAMBDA o : o.order_id = order_id)

\* The step's starting point: nothing submitted, nothing applied yet.
StepState == OrderState(positions, order_sequence, trader_pending_orders, <<>>, <<>>)

\* start_trading waits in KiwoomAPI.comm_connect for the login event.
LoginWait == api_login_event_loop = "running"

\* TradingManager.start_trading up to login_event_loop.exec_() in
\* KiwoomAPI.comm_connect; d: what CommConnect() does.  With status 0 the call
\* waits for the login event, during which the timer and the broker's events
\* are served; otherwise start_trading returns False.  comm_connect creates
\* the loop before it calls CommConnect, so a call that is refused or raises
\* leaves a loop that never ran.
StartTrading(d) ==
    /\ ~LoginWait
    /\ api_login_event_loop' = IF ~d.raised /\ d.ret = 0 THEN "running" ELSE "stopped"
    /\ trade_op' = TradeOp("start_trading", "", "NONE", FALSE, <<>>, <<>>, trade_op.fills)
    /\ UNCHANGED <<trading_mode, is_trading, real_data, price_data, positions, order_sequence,
                   trader_pending_orders>>
    /\ UNCHANGED component_vars
    /\ UNCHANGED <<strategies, fn_call>>

\* KiwoomAPI._event_connect while start_trading waits, and start_trading from
\* the return of exec_ on: the event exits the loop; is_trading is set when the
\* login succeeded (err_code 0) and an account was found.
KiwoomAPIEventConnect(err_code, account_found) ==
    /\ LoginWait
    /\ api_login_event_loop' = "stopped"
    /\ is_trading' = IF err_code = 0 /\ account_found THEN TRUE ELSE is_trading
    /\ trade_op' = TradeOp("start_trading_return", "", "NONE", FALSE, <<>>, <<>>,
                           trade_op.fills)
    /\ UNCHANGED <<trading_mode, real_data, price_data, positions, order_sequence,
                   trader_pending_orders>>
    /\ UNCHANGED component_vars
    /\ UNCHANGED <<strategies, fn_call>>

\* TradingManager.stop_trading, called by the main program (not while it is
\* inside start_trading).
StopTrading ==
    /\ ~LoginWait
    /\ is_trading' = FALSE
    /\ trade_op' = TradeOp("stop_trading", "", "NONE", FALSE, <<>>, <<>>, trade_op.fills)
    /\ UNCHANGED <<trading_mode, real_data, price_data, positions, order_sequence,
                   trader_pending_orders>>
    /\ UNCHANGED component_vars
    /\ UNCHANGED api_login_event_loop
    /\ UNCHANGED <<strategies, fn_call>>

\* TradingManager.handle_real_data: a market-data tick.  clocks: what the clock
\* may read (market hours or not); outcomes: what the broker may answer to an
\* order of this tick.  The signal process_trading_signal generates depends on
\* neither, and is generated once for the tick.
HandleRealData(code, price, clocks, outcomes) ==
    \E rd \in {update_real_price(real_data, code, price)},
       pd \in {update_price_history(price_data, code, price)} :
    \E signal \in {generate_signals(strategies, pd, rd, code)} :
    \E passes \in {signal.action # "HOLD"
                    /\ check_risk_limits(risk_manager, signal, ACCOUNT_BALANCE)} :
    \E market_open \in clocks, d \in outcomes :
    \E proceeds \in {~(~is_market_time(trading_mode, market_open) /\ trading_mode = "normal")
                     /\ is_trading} :
    \E st \in {IF proceeds
                THEN process_signal(StepState, trading_mode, code, signal, d)
                ELSE StepState} :
       /\ real_data' = rd
       /\ price_data' = pd
       /\ positions' = st.positions
       /\ order_sequence' = st.order_sequence
       /\ trader_pending_orders' = st.pending_orders
       /\ trade_op' = TradeOp("handle_real_data", code,
                              IF proceeds THEN signal.action ELSE "NONE",
                              proceeds /\ passes,
                              st.submitted, st.fill, trade_op.fills + Len(st.fill))
       /\ UNCHANGED <<trading_mode, is_trading>>
       /\ UNCHANGED component_vars
       /\ UNCHANGED api_login_event_loop
       /\ UNCHANGED <<strategies, fn_call>>

\* TradingManager.check_positions: the 5 s monitor timer fires.
CheckPositions(ds) ==
    \E st \in {check_positions(StepState, real_data, 1, ds)} :
       /\ positions' = st.positions
       /\ order_sequence' = st.order_sequence
       /\ trader_pending_orders' = st.pending_orders
       /\ trade_op' = TradeOp("check_positions", "", "NONE", FALSE, st.submitted, st.fill,
                              trade_op.fills)
       /\ UNCHANGED <<trading_mode, is_trading, real_data, price_data>>
       /\ UNCHANGED component_vars
       /\ UNCHANGED api_login_event_loop
       /\ UNCHANGED <<strategies, fn_call>>

\* TradingManager.handle_chejan_data: a broker event reaches the trader; with
\* gubun "0" it reports a fill of the order order_id, one of the orders the
\* broker accepted (0: an order the order manager does not know).  trade_op
\* records the code and action of the order filled.
HandleChejanData(gubun, order_id) ==
    /\ order_id # 0 => PendingOrderIndex(trader_pending_orders, order_id) # 0
    /\ trade_op' =
          IF gubun = "0" /\ order_id # 0
          THEN LET order == trader_pending_orders[
                                PendingOrderIndex(trader_pending_orders, order_id)]
               IN TradeOp("handle_chejan_data", order.code, order.action, FALSE, <<>>, <<>>,
                          trade_op.fills)
          ELSE TradeOp("handle_chejan_data", "", "NONE", FALSE, <<>>, <<>>, trade_op.fills)
    /\ UNCHANGED <<trading_mode, is_trading, real_data, price_data, positions,
                   order_sequence, trader_pending_orders>>
    /\ UNCHANGED component_vars
    /\ UNCHANGED api_login_event_loop
    /\ UNCHANGED <<strategies, fn_call>>

\* The broker accepting a call.
Accepted == [raised |-> FALSE, ret |-> 0]

\* The number of prices held for a code.
HistoryLen(code) == IF code \in DOMAIN price_data THEN Len(price_data[code]) ELSE 0

\* Bounds of the trading runs.
MaxTicks == 4       \* market-data ticks in one run
MaxOrders == 2      \* orders passed to api.send_order in one run
TickPrices == {100, 200, 400}
OtherTickPrices == {100, 200}
PricesOf(code) == IF code = "005930" THEN TickPrices ELSE OtherTickPrices
\* The inputs a tick's handler reads: the clock only in normal mode, the
\* broker's answer only where orders go to the broker.
ClockReadings == IF trading_mode = "normal" THEN BOOLEAN ELSE {TRUE}
ApiOutcomes == IF trading_mode = "test" THEN {[raised |-> FALSE, ret |-> 0]} ELSE DispatchOutcomes
RECURSIVE SamplesIn(_)
SamplesIn(S) ==
    IF S = {} THEN 0
    ELSE LET c == CHOOSE x \in S : TRUE IN Len(price_data[c]) + SamplesIn(S \ {c})
TicksLeft == SamplesIn(DOMAIN price_data) < MaxTicks
OrdersLeft == order_sequence < MaxOrders
\* The positions a monitor run looks at: at most one order each.
Monitored ==
    {i \in DOMAIN positions : /\ positions[i].quantity # 0
                              /\ get_current_price(real_data, positions[i].code) # 0}

NextTrade ==
    \/ \E d \in DispatchOutcomes : StartTrading(d)
    \/ \E err_code \in ConnectCodes, account_found \in BOOLEAN :
            KiwoomAPIEventConnect(err_code, account_found)
    \/ StopTrading
    \/ TicksLeft /\ \E code \in Codes :
            \E price \in PricesOf(code) :
                HandleRealData(code, price, ClockReadings, ApiOutcomes)
    \/ OrdersLeft /\ \E ds \in [1..Cardinality(Monitored) -> DispatchOutcomes] : CheckPositions(ds)
    \/ \E gubun \in {"0", "1"}, order_id \in 0..MaxOrders : HandleChejanData(gubun, order_id)

TradeConfigs == {default_strategies_config, yaml_strategies_config}
InitTrade ==
    ComponentInit /\ \E mode \in TradingModes, config \in TradeConfigs :
                        TradingManagerInitOf(mode, config)
SpecTrade == InitTrade /\ [][NextTrade]_vars

\* One long trading session on one code with a falling market: run() calls
\* start_trading once, the login succeeds or fails, and the ticks follow a
\* successful start.  The first tick opens the market; the next few repeat the
\* last price or are one below it, every later tick is one below the last; the
\* clock reads market hours and the broker accepts every order.  Only
\* start_trading and the market-data path run, so every order comes from a
\* trading signal.
MaxSessionTicks == 26
SessionBranching == 4
SessionCode == "005930"
SessionOpen == {100000}
SessionPrices ==
    IF HistoryLen(SessionCode) = 0 THEN SessionOpen
    ELSE IF HistoryLen(SessionCode) < SessionBranching
    THEN {get_current_price(real_data, SessionCode),
          get_current_price(real_data, SessionCode) - 1}
    ELSE {get_current_price(real_data, SessionCode) - 1}
NextSession ==
    \/ api_login_event_loop = "None" /\ StartTrading(Accepted)
    \/ \E err_code \in ConnectCodes : KiwoomAPIEventConnect(err_code, TRUE)
    \/ /\ is_trading
       /\ HistoryLen(SessionCode) < MaxSessionTicks
       /\ \E price \in SessionPrices :
              HandleRealData(SessionCode, price, {TRUE}, {Accepted})
SpecSession == InitTrade /\ [][NextSession]_vars

----------------------------------------------------------------------------
\* OrderManager.update_position applied to fills drawn from small sets.
MaxFills == 3
FillQuantities == {0, 10, 20, 30}
FillPrices == {100, 110, 120}

ApplyFill(code, action, quantity, price) ==
    /\ positions' = update_position(positions, code, action, quantity, price)
    /\ trade_op' = TradeOp("update_position", code, action, FALSE, <<>>,
                           <<Fill(code, action, quantity, price,
                                  position_get(positions, code).quantity)>>,
                           trade_op.fills + 1)
    /\ UNCHANGED <<trading_mode, is_trading, real_data, price_data, order_sequence,
                   trader_pending_orders>>
    /\ UNCHANGED component_vars
    /\ UNCHANGED api_login_event_loop
    /\ UNCHANGED <<strategies, fn_call>>

NextFills ==
    /\ trade_op.fills < MaxFills
    /\ \E code \in Codes, action \in {"BUY", "SELL"}, quantity \in FillQuantities,
          price \in FillPrices : ApplyFill(code, action, quantity, price)

InitData == ComponentInit /\ TradingManagerInit("test")
SpecFills == InitData /\ [][NextFills]_vars

\* DataManager.update_real_price applied to samples: the current price is
\* stored and the sample appended to the history.
UpdateRealPrice(code, price) ==
    /\ real_data' = update_real_price(real_data, code, price)
    /\ price_data' = update_price_history(price_data, code, price)
    /\ trade_op' = TradeOp("update_real_price", code, "NONE", FALSE, <<>>, <<>>,
                           trade_op.fills)
    /\ UNCHANGED <<trading_mode, is_trading, positions, order_sequence,
                   trader_pending_orders>>
    /\ UNCHANGED component_vars
    /\ UNCHANGED api_login_event_loop
    /\ UNCHANGED <<strategies, fn_call>>

\* The n-th sample of a code carries the price n; one code receives more than
\* the history keeps, the other a few.
MaxEvicted == 2
Received(code) == get_current_price(real_data, code)
SamplesFor(code) == IF code = "005930" THEN HISTORY_MAX + MaxEvicted ELSE MaxEvicted
NextHistory ==
    \E code \in Codes :
        Received(code) < SamplesFor(code) /\ UpdateRealPrice(code, Received(code) + 1)
SpecHistory == InitData /\ [][NextHistory]_vars

\* Short histories of varied prices, for calculate_rsi.
MaxSamples == 4
RsiPrices == {0, 10, 11, 12}
OtherRsiPrices == {10, 11}
RsiPricesOf(code) == IF code = "005930" THEN RsiPrices ELSE OtherRsiPrices
Periods == {1, 2, 3}
NextRsi ==
    \E code \in Codes :
        \E price \in RsiPricesOf(code) :
            HistoryLen(code) < MaxSamples /\ UpdateRealPrice(code, price)
SpecRsi == InitData /\ [][NextRsi]_vars

----------------------------------------------------------------------------
\* The strategy engine: strategies are registered from the configuration and with
\* add_strategy, prices arrive, and generate_signals is read off the state.
MaxStrategies == 2          \* strategies registered in one run
MaxStrategySamples == 3     \* prices received per code
StrategyPrices == {10, 11, 12}
OtherStrategyPrices == {10, 11}
StrategyPricesOf(code) == IF code = "005930" THEN StrategyPrices ELSE OtherStrategyPrices
\* Thresholds with 0 < oversold < overbought < 100.
Thresholds == {<<OVERSOLD, OVERBOUGHT>>, <<20, 60>>}
StrategyChoices ==
    {RSIStrategy(p, t[1], t[2]) : p \in {1, 2}, t \in Thresholds}
        \cup {Strategy(name) : name \in {"RSI_Strategy", "MA_Strategy"}}
\* Configured strategy lists: none, the default, one of a name load_strategies
\* does not know, and two RSI strategies with different parameters.
StrategyConfigs ==
    {<<>>,
     default_strategies_config,
     <<[name |-> "MA_Strategy", period |-> 2, oversold |-> OVERSOLD,
        overbought |-> OVERBOUGHT]>>,
     <<[name |-> "RSI_Strategy", period |-> 2, oversold |-> OVERSOLD,
        overbought |-> OVERBOUGHT],
       [name |-> "RSI_Strategy", period |-> 1, oversold |-> 20, overbought |-> 60]>>}

AddStrategy(strategy) ==
    /\ strategies' = add_strategy(strategies, strategy)
    /\ trade_op' = TradeOp("add_strategy", "", "NONE", FALSE, <<>>, <<>>, trade_op.fills)
    /\ UNCHANGED <<trading_mode, is_trading, real_data, price_data, positions,
                   order_sequence, trader_pending_orders, fn_call>>
    /\ UNCHANGED component_vars
    /\ UNCHANGED api_login_event_loop

NextStrategies ==
    \/ \E strategy \in StrategyChoices :
          Len(strategies) < MaxStrategies /\ AddStrategy(strategy)
    \/ \E code \in Codes :
          \E price \in StrategyPricesOf(code) :
              HistoryLen(code) < MaxStrategySamples /\ UpdateRealPrice(code, price)
InitStrategies ==
    ComponentInit /\ \E config \in StrategyConfigs : TradingManagerInitOf("test", config)
SpecStrategies == InitStrategies /\ [][NextStrategies]_vars

----------------------------------------------------------------------------
\* The risk manager's functions, called with arguments drawn from small sets.
Confidences == {FloatOf(-1, 2), FloatOf(0, 1), FloatOf(49, 100), FloatOf(1, 2), FloatOf(4, 5),
                FloatOf(1, 1)}
RiskSignals ==
    {[action |-> a, confidence |-> c] : a \in {"BUY", "SELL", "HOLD"}, c \in Confidences}
Balances == {1000000, ACCOUNT_BALANCE}
\* Risk managers whose daily counters stand below, at and above their limits
\* (for a balance of 10,000,000 the loss limit is -200,000).
RiskManagers ==
    {RiskManager(t, FloatOfInt(pnl)) : t \in {0, MAX_DAILY_TRADES - 1, MAX_DAILY_TRADES,
                                         MAX_DAILY_TRADES + 1},
                                  pnl \in {0, -20000, -200000, -200001}}
SizePrices == {-100, 0, 1, 300, 70000, 75000}
\* Entry prices: whole, fractional, and averages no double holds exactly
\* (4900/97 and 3500/107, whose 3% loss and 7% gain fall on whole prices).
EntryPrices == {FloatOf(100, 1), FloatOf(205, 2), FloatOf(1000, 1), FloatOf(4900, 97),
                FloatOf(3500, 107)}
CurrentPrices == {35, 49, 90, 96, 97, 98, 100, 103, 107, 970, 1030}

\* The calls to make: the function and its arguments, the result not yet there
\* (ret is <<>> until the call returns, then <<result>>).
NotReturned == <<>>
RiskCalls ==
    {Call("check_risk_limits", <<self, signal, account_balance>>, NotReturned) :
        self \in RiskManagers, signal \in RiskSignals, account_balance \in Balances}
    \cup
    {Call("calculate_position_size", <<signal, account_balance, current_price>>, NotReturned) :
        signal \in RiskSignals, account_balance \in Balances, current_price \in SizePrices}
    \cup
    {Call(fn, <<entry_price, current_price, position_type>>, NotReturned) :
        fn \in {"should_stop_loss", "should_take_profit"}, entry_price \in EntryPrices,
        current_price \in CurrentPrices, position_type \in {"LONG", "SHORT"}}

\* The function named by fn_call is applied to its arguments.
Return(fn, ret) ==
    /\ fn_call.fn = fn
    /\ fn_call.ret = NotReturned
    /\ fn_call' = Call(fn, fn_call.args, <<ret>>)
    /\ UNCHANGED <<trading_mode, is_trading, real_data, price_data, positions,
                   order_sequence, trader_pending_orders, trade_op, strategies>>
    /\ UNCHANGED component_vars
    /\ UNCHANGED api_login_event_loop

CallCheckRiskLimits ==
    Return("check_risk_limits",
           check_risk_limits(fn_call.args[1], fn_call.args[2], fn_call.args[3]))
CallCalculatePositionSize ==
    Return("calculate_position_size",
           calculate_position_size(fn_call.args[1], fn_call.args[2], fn_call.args[3]))
CallShouldStopLoss ==
    Return("should_stop_loss",
           should_stop_loss(fn_call.args[1], fn_call.args[2], fn_call.args[3]))
CallShouldTakeProfit ==
    Return("should_take_profit",
           should_take_profit(fn_call.args[1], fn_call.args[2], fn_call.args[3]))

NextRisk ==
    \/ CallCheckRiskLimits
    \/ CallCalculatePositionSize
    \/ CallShouldStopLoss
    \/ CallShouldTakeProfit
InitRisk ==
    /\ ComponentInit
    /\ TradingManagerFields("test", default_strategies_config)
    /\ fn_call \in RiskCalls
SpecRisk == InitRisk /\ [][NextRisk]_vars

----------------------------------------------------------------------------
\* Parsing of broker field values.  A Python str is a sequence of one-character
\* strings; a raw value is <<"str", chars>> or <<"None", <<>>>>.
DigitChars == <<"0", "1", "2", "3", "4", "5", "6", "7", "8", "9">>
Digits == {DigitChars[i] : i \in DOMAIN DigitChars}
DigitValue(c) == (CHOOSE i \in DOMAIN DigitChars : DigitChars[i] = c) - 1
Str(chars) == <<"str", chars>>
None == <<"None", <<>>>>
\* str(value)
py_str(value) == IF value[1] = "str" THEN value[2] ELSE <<"N", "o", "n", "e">>

\* s.replace(old, "") for a one-character old; s.strip()
str_replace(s, old) == SelectSeq(s, LAMBDA c : c # old)
RECURSIVE str_lstrip(_)
str_lstrip(s) == IF s # <<>> /\ s[1] = " " THEN str_lstrip(Tail(s)) ELSE s
RECURSIVE str_rstrip(_)
str_rstrip(s) ==
    IF s # <<>> /\ s[Len(s)] = " " THEN str_rstrip(SubSeq(s, 1, Len(s) - 1)) ELSE s
str_strip(s) == str_rstrip(str_lstrip(s))

AllDigits(s) == s # <<>> /\ \A i \in DOMAIN s : s[i] \in Digits
RECURSIVE digits_value(_)
digits_value(s) ==
    IF s = <<>> THEN 0
    ELSE 10 * digits_value(SubSeq(s, 1, Len(s) - 1)) + DigitValue(s[Len(s)])
RECURSIVE Pow10(_)
Pow10(n) == IF n = 0 THEN 1 ELSE 10 * Pow10(n - 1)

\* int(s) and float(s) of a str: the value, or raised (ValueError).  Both skip
\* surrounding whitespace and take one sign; float takes one decimal point.
py_int(s) ==
    LET t == str_strip(s)
        signed == t # <<>> /\ t[1] \in {"-", "+"}
        body == IF signed THEN Tail(t) ELSE t
    IN IF AllDigits(body)
       THEN [raised |-> FALSE,
             value |-> IF signed /\ t[1] = "-" THEN -digits_value(body)
                       ELSE digits_value(body)]
       ELSE [raised |-> TRUE, value |-> 0]
py_float(s) ==
    LET t == str_strip(s)
        signed == t # <<>> /\ t[1] \in {"-", "+"}
        body == IF signed THEN Tail(t) ELSE t
        points == {i \in DOMAIN body : body[i] = "."}
        digits == str_replace(body, ".")
        decimals == IF points = {} THEN 0 ELSE Len(body) - (CHOOSE i \in points : TRUE)
    IN IF Cardinality(points) <= 1 /\ AllDigits(digits)
       THEN [raised |-> FALSE,
             value |-> FloatOf(IF signed /\ t[1] = "-" THEN -digits_value(digits)
                               ELSE digits_value(digits), Pow10(decimals))]
       ELSE [raised |-> TRUE, value |-> FloatOfInt(0)]

\* TrRequestManager._init_tr_configs: the output fields of the two configured
\* requests with their types, in the order of the table.  The field names are
\* the table's Korean keys in English.
OPT10001_OUTPUTS ==
    << <<"stock_name", "str">>, <<"current_price", "int">>, <<"base_price", "int">>,
       <<"prev_close", "int">>, <<"open_price", "int">>, <<"high_price", "int">>,
       <<"low_price", "int">>, <<"upper_limit", "int">>, <<"lower_limit", "int">>,
       <<"change", "int">>, <<"change_rate", "float">>, <<"volume", "int">>,
       <<"trade_value", "int">>, <<"face_value", "int">>, <<"market_cap", "int">>,
       <<"listed_shares", "int">>, <<"PER", "float">>, <<"EPS", "int">>, <<"ROE", "float">>,
       <<"PBR", "float">>, <<"EV", "float">>, <<"BPS", "int">>, <<"sales", "int">>,
       <<"operating_profit", "int">>, <<"net_income", "int">>, <<"high_250", "int">>,
       <<"low_250", "int">>, <<"market_cap_size", "str">>, <<"sector_large", "str">>,
       <<"sector_medium", "str">>, <<"sector_small", "str">>, <<"manufacturing", "str">>,
       <<"sales_growth", "float">>, <<"operating_profit_growth", "float">>,
       <<"net_income_growth", "float">>, <<"ROE_growth", "float">>,
       <<"sales_deficit", "str">>, <<"operating_profit_deficit", "str">>,
       <<"net_income_deficit", "str">> >>
OPT10075_OUTPUTS ==
    << <<"account_no", "str">>, <<"order_no", "str">>, <<"stock_code", "str">>,
       <<"order_status", "str">>, <<"stock_name", "str">>, <<"business_type", "str">>,
       <<"order_type", "str">>, <<"order_price", "int">>, <<"order_quantity", "int">>,
       <<"time", "str">>, <<"unfilled_quantity", "int">>, <<"filled_price", "int">>,
       <<"filled_quantity", "int">>, <<"current_price", "int">>, <<"trade_type", "str">>,
       <<"unit_filled_price", "int">>, <<"unit_filled_quantity", "int">> >>
\* A dict given by its items.
DictOf(items) ==
    [key \in {items[i][1] : i \in DOMAIN items} |->
        items[CHOOSE i \in DOMAIN items : items[i][1] = key][2]]

\* TrRequestManager._tr_configs.get(tr_code, {}).get("outputs", {})
tr_outputs(tr_code) ==
    IF tr_code = "opt10001" THEN DictOf(OPT10001_OUTPUTS)
    ELSE IF tr_code = "opt10075" THEN DictOf(OPT10075_OUTPUTS)
    ELSE DictOf(<<>>)

\* The body of the try in parse_data for one field: the value, or raised
\* (ValueError from int / float, AttributeError for a value that is no str).
parse_field(data_type, raw_value) ==
    IF raw_value[1] # "str"
    THEN [raised |-> TRUE, value |-> 0]
    ELSE IF data_type = "int"
    THEN LET clean_value == str_strip(str_replace(str_replace(raw_value[2], ","), "+"))
         IN IF clean_value # <<>> /\ clean_value # <<"-">> THEN py_int(clean_value)
            ELSE [raised |-> FALSE, value |-> 0]
    ELSE IF data_type = "float"
    THEN LET clean_value == str_strip(str_replace(str_replace(raw_value[2], "%"), "+"))
         IN IF clean_value # <<>> /\ clean_value # <<"-">> THEN py_float(clean_value)
            ELSE [raised |-> FALSE, value |-> FloatOfInt(0)]
    ELSE [raised |-> FALSE, value |-> str_strip(raw_value[2])]
\* The value the except clause stores.
parse_default(data_type) ==
    IF data_type = "int" THEN 0 ELSE IF data_type = "float" THEN FloatOfInt(0) ELSE <<>>
dict_get(raw_data, field) ==
    IF field \in DOMAIN raw_data THEN raw_data[field] ELSE Str(<<>>)

\* Mutant: the fields are parsed without the try / except.
parse_data_unguarded(tr_code, raw_data) ==
    LET outputs == tr_outputs(tr_code)
        parsed == [field \in DOMAIN outputs |->
                      parse_field(outputs[field], dict_get(raw_data, field))]
    IN [raised |-> \E field \in DOMAIN outputs : parsed[field].raised,
        value |-> [field \in DOMAIN outputs |-> parsed[field].value]]

\* TrRequestManager.parse_data
parse_data(tr_code, raw_data) ==
    LET outputs == tr_outputs(tr_code)
        parsed == [field \in DOMAIN outputs |->
                      parse_field(outputs[field], dict_get(raw_data, field))]
    IN [raised |-> FALSE,
        value |-> [field \in DOMAIN outputs |->
                      IF parsed[field].raised THEN parse_default(outputs[field])
                      ELSE parsed[field].value]]

\* KiwoomService._parseInteger
parseInteger(value) ==
    LET cleanValue == str_strip(str_replace(str_replace(py_str(value), ","), "+"))
        converted == IF cleanValue # <<>> /\ cleanValue # <<"-">> THEN py_int(cleanValue)
                     ELSE [raised |-> FALSE, value |-> 0]
    IN [raised |-> FALSE, value |-> IF converted.raised THEN 0 ELSE converted.value]

\* Raw values: every str of up to MaxRawLen characters for the integer field and
\* for _parseInteger, a few for the other fields; a field may be missing or None.
MaxRawLen == 3
RawChars == {"0", "1", "7", "-", "+", ",", " ", "x"}
RECURSIVE StringsOfLen(_)
StringsOfLen(n) ==
    IF n = 0 THEN {<<>>}
    ELSE {Append(t, c) : t \in StringsOfLen(n - 1), c \in RawChars}
RawStrings == UNION {StringsOfLen(n) : n \in 0..MaxRawLen}
IntegerRaws == {Str(t) : t \in RawStrings} \cup {None}
FloatRaws ==
    {Str(<<>>), Str(<<"-">>), Str(<<"+", "7", ".", "1", "%">>), Str(<<"-", ".", "7">>),
     Str(<<"7", ".", "1", ".">>), Str(<<"x">>), None}
NameRaws == {Str(<<" ", "x", " ">>), None}
Missing == <<"missing", <<>>>>
\* The dict holding the fields that are not missing.
RawData(name, price, rate) ==
    LET given == [field \in {"stock_name", "current_price", "change_rate"} |->
                     IF field = "stock_name" THEN name
                     ELSE IF field = "current_price" THEN price ELSE rate]
    IN [field \in {f \in DOMAIN given : given[f] # Missing} |-> given[field]]
\* The dict of an opt10075 row holding the two fields given.
QuantityRaws == {Str(<<"1", "0">>), Str(<<"+", "7">>), Str(<<"x">>), None}
RawOrder(order_no, quantity) ==
    LET given == [field \in {"order_no", "order_quantity"} |->
                     IF field = "order_no" THEN order_no ELSE quantity]
    IN [field \in {f \in DOMAIN given : given[f] # Missing} |-> given[field]]
ParseCalls ==
    {Call("parse_data", <<tr_code, RawData(name, price, rate)>>, NotReturned) :
        tr_code \in {"opt10001"}, name \in NameRaws \cup {Missing},
        price \in IntegerRaws \cup {Missing}, rate \in FloatRaws \cup {Missing}}
    \cup {Call("parse_data", <<"opt10075", RawOrder(order_no, quantity)>>, NotReturned) :
             order_no \in NameRaws \cup {Missing}, quantity \in QuantityRaws \cup {Missing}}
    \cup {Call("parse_data", <<"opt99999", RawData(None, None, None)>>, NotReturned)}
    \cup {Call("_parseInteger", <<value>>, NotReturned) : value \in IntegerRaws}

CallParseData == Return("parse_data", parse_data(fn_call.args[1], fn_call.args[2]))
CallParseInteger == Return("_parseInteger", parseInteger(fn_call.args[1]))
NextParse == CallParseData \/ CallParseInteger
InitParse ==
    /\ ComponentInit
    /\ TradingManagerFields("test", default_strategies_config)
    /\ fn_call \in ParseCalls
SpecParse == InitParse /\ [][NextParse]_vars

----------------------------------------------------------------------------
\* Helpers of the properties.
StackIds == {<<call_stack[i].kind, call_stack[i].id>> : i \in 1..Len(call_stack)}
TrTickets == {pending_tr_requests[i] : i \in 1..Len(pending_tr_requests)}
OrderTickets == {pending_orders[i] : i \in 1..Len(pending_orders)}
TableIds == {<<"TR", t.request_id>> : t \in TrTickets} \cup
            {<<"ORDER", t.order_id>> : t \in OrderTickets}
Suspends(id) == <<"TR", id>> \in StackIds \/ <<"ORDER", id>> \in StackIds

\* C1: every request_tr / send_order_sync call that was dispatched (status 0) and
\* suspended eventually returns to its caller, under fairness of timers and of
\* the event loop: no caller remains suspended forever.
C1_EveryDispatchedCallReturns ==
    \A id \in 1..MaxCalls : Suspends(id) ~> ~Suspends(id)

----------------------------------------------------------------------------
CompletedIds == {<<"TR", t.request_id>> : t \in {u \in TrTickets : u.completed}} \cup
                {<<"ORDER", t.order_id>> : t \in {u \in OrderTickets : u.completed}}
PendingIds == TableIds \ CompletedIds
TicketOf(k) ==
    IF k[1] = "TR" THEN pending_tr_requests[TrIndex(pending_tr_requests, k[2])]
    ELSE pending_orders[OrderIndex(pending_orders, k[2])]
TicketFrames == {i \in 1..Len(call_stack) : call_stack[i].kind # "LOGIN"}
FrameTicket(i) == TicketOf(<<call_stack[i].kind, call_stack[i].id>>)

\* C2: no two Pending tickets of one kind carry the same matching key (request
\* id of TR tickets, screen number of order tickets), also after the screen
\* counter has wrapped.
C2_PendingKeysDistinct ==
    /\ \A i, j \in 1..Len(pending_orders) :
          (i # j /\ ~pending_orders[i].completed /\ ~pending_orders[j].completed)
              => pending_orders[i].screen_no # pending_orders[j].screen_no
    /\ \A i, j \in 1..Len(pending_tr_requests) :
          (i # j /\ ~pending_tr_requests[i].completed /\ ~pending_tr_requests[j].completed)
              => pending_tr_requests[i].request_id # pending_tr_requests[j].request_id

\* C3: a suspended caller whose ticket has been resolved (its loop told to exit)
\* resumes without waiting for another ticket: it is never held beneath a caller
\* that is still waiting for its own ticket.
C3_ResolvedCallerNotHeldByAnother ==
    \A i, j \in TicketFrames :
        (i < j /\ ~isRunning(FrameTicket(i).event_loop)) => ~isRunning(FrameTicket(j).event_loop)

\* C4: a broker event (TR data, order message, fill) marks at most one Pending
\* ticket completed, and a TR-data or order-message event marks only a ticket
\* whose key equals the key the event carries.
C4_EventCompletesAtMostOneMatching ==
    [][LET newly == PendingIds \cap CompletedIds'
       IN /\ last_op'.op \in {"receive_tr_data", "receive_msg", "receive_chejan_data"}
               => Cardinality(newly) <= 1
          /\ last_op'.op = "receive_tr_data"
               => newly \subseteq {<<"TR", last_op'.key>>}
          /\ last_op'.op = "receive_msg"
               => \A k \in newly : k[1] = "ORDER" /\ TicketOf(k).screen_no = last_op'.key
      ]_vars

\* A fill has completed one of two open orders on its stock code and left the other.
C4_Witness ==
    /\ last_op.op = "receive_chejan_data"
    /\ \E t, u \in OrderTickets :
          /\ t.code = last_op.code /\ u.code = last_op.code
          /\ t.result = ChejanResult /\ ~u.completed

\* C5: once a ticket is marked completed, no later event or timeout changes its
\* completed flag or its stored result while it is in the table.
C5_CompletionNeverRegresses ==
    [][\A k \in CompletedIds :
          k \in TableIds' => (k \in CompletedIds' /\ TicketOf(k)'.result = TicketOf(k).result)
      ]_vars

\* The timeout of an order fired after a message had completed it.
C5_Witness ==
    /\ last_op.op = "order_timeout"
    /\ <<"ORDER", last_op.key>> \in CompletedIds
    /\ TicketOf(<<"ORDER", last_op.key>>).result = MessageResult

\* C6: the timeout of a ticket that is still Pending resolves it: the synthetic
\* timeout result is stored, the caller woken, the timer spent; and a ticket
\* resolved by timeout is not resolved again.
C6_TimeoutResolvesOnce ==
    [][/\ \A k \in PendingIds :
            (last_op'.op = (IF k[1] = "TR" THEN "tr_timeout" ELSE "order_timeout")
             /\ last_op'.key = k[2])
            => /\ k \in CompletedIds'
               /\ TicketOf(k)'.result =
                     (IF k[1] = "TR" THEN TrTimeoutResult ELSE OrderTimeoutResult)
               /\ ~isRunning(TicketOf(k)'.event_loop)
               /\ k \notin active_timers'
       /\ \A k \in CompletedIds \cap TableIds' :
            TicketOf(k).result \in {TrTimeoutResult, OrderTimeoutResult}
            => (TicketOf(k)' = TicketOf(k) /\ k \notin active_timers')
      ]_vars

\* An order's timeout has just resolved it.
C6_Witness ==
    /\ last_op.op = "order_timeout"
    /\ <<"ORDER", last_op.key>> \in CompletedIds
    /\ TicketOf(<<"ORDER", last_op.key>>).result = OrderTimeoutResult

\* C7: every ticket in an active table and every running ticket timer belongs to
\* a caller that is still suspended; so with no caller suspended the tables are
\* empty and no timer runs.
C7_ReturnedCallsAreCleanedUp ==
    /\ (TableIds \cup active_timers) \subseteq StackIds
    /\ Idle => (pending_tr_requests = <<>> /\ pending_orders = <<>> /\ active_timers = {})

\* A request_tr call has returned the broker's data and nothing is suspended.
C7_Witness ==
    /\ Idle
    /\ last_op.op = "request_tr_return"
    /\ last_op.ret = TrDataResult

\* C8: on a nonzero dispatch status request_tr / send_order_sync returns the
\* failure in the same step, without suspending, and its ticket is not in the
\* active table afterwards.
C8_DispatchFailureReturnsAtOnce ==
    [][\A d \in {x \in DispatchOutcomes : ~x.raised /\ x.ret # 0} :
          /\ (is_connected /\ last_op'.op = "request_tr"
                /\ \E callback \in Callbacks, early \in TrEarlyEvents :
                      RequestTr(callback, d, early))
               => /\ call_stack' = call_stack
                  /\ last_op'.ret = NoneResult
                  /\ <<"TR", next_uid>> \notin TableIds'
                  /\ <<"TR", next_uid>> \notin active_timers'
          /\ (is_connected /\ last_op'.op = "send_order_sync"
                /\ \E code \in Codes, early \in OrderEarlyEvents :
                      SendOrderSync(code, d, early))
               => /\ call_stack' = call_stack
                  /\ last_op'.ret = DispatchFailedResult
                  /\ <<"ORDER", next_uid>> \notin TableIds'
                  /\ <<"ORDER", next_uid>> \notin active_timers'
      ]_vars

\* send_order_sync has just reported a dispatch failure.
C8_Witness ==
    /\ last_op.op = "send_order_sync"
    /\ last_op.ret = DispatchFailedResult

\* C9: the number of orders outstanding (dispatched, not yet resolved) is at
\* most the cap on concurrent orders.
C9_OutstandingWithinCap ==
    Cardinality({t \in OrderTickets : ~t.completed}) <= MAX_CONCURRENT_ORDERS

\* C10: a TR-data or order-message event whose key matches no ticket in the
\* active table changes no ticket, nor the tables.
C10_OrphanEventChangesNothing ==
    [][/\ (last_op'.op = "receive_tr_data"
            /\ \A t \in TrTickets : t.request_id # last_op'.key)
           => UNCHANGED <<pending_tr_requests, pending_orders, active_timers, call_stack>>
       /\ (last_op'.op = "receive_msg"
            /\ \A t \in OrderTickets : t.screen_no # last_op'.key)
           => UNCHANGED <<pending_tr_requests, pending_orders, active_timers, call_stack>>
      ]_vars

\* An order message with an unknown screen number arrived while an order was open.
C10_Witness ==
    /\ last_op.op = "receive_msg"
    /\ last_op.key = OrphanKey
    /\ \E t \in OrderTickets : ~t.completed

----------------------------------------------------------------------------
\* kiwoom_service.py: KiwoomService.get_pending_orders around its request_tr
\* call.  connected: the component is logged in; accounts: get_account_list is
\* not empty and holds the account asked for; rawData: what request_tr returned.
ServiceError == [success |-> FALSE, error |-> TRUE, parsed |-> FALSE]
ServiceSuccess(parsed) == [success |-> TRUE, error |-> FALSE, parsed |-> parsed]
get_pending_orders(connected, accounts, rawData) ==
    IF ~connected THEN ServiceError
    ELSE IF ~accounts THEN ServiceError
    ELSE IF rawData.type = "None" THEN ServiceSuccess(FALSE)
    ELSE ServiceSuccess(TRUE)

\* KiwoomService.order_stock around its send_order call.  known: get_stock_kospi
\* finds the symbol; accounts: the number of accounts of the session; market:
\* what _is_market_open answers; sync_result: what send_order_sync returns once
\* it is reached.  A call either returns a value or raises.
Returned(value) == [raised |-> "", value |-> value]
Raised(exception) == [raised |-> exception, value |-> NoneResult]
OrderStockSuccess(dispatched) == [success |-> TRUE, error |-> FALSE, dispatched |-> dispatched]
OrderStockError(dispatched) == [success |-> FALSE, error |-> TRUE, dispatched |-> dispatched]

\* The parameters send_order declares, and the keywords order_stock passes.
SendOrderParameters ==
    {"screen_name", "acc_no", "order_type", "code", "qty", "price", "hoga_gb", "org_order_no"}
OrderStockKeywords ==
    {"screen_name", "screen_no", "acc_no", "order_type", "code", "qty", "price", "hoga_gb",
     "org_order_no"}

\* KiwoomComponent.send_order called with keyword arguments: a keyword that is
\* no parameter raises TypeError before the body runs.
send_order(keywords, connected, sync_result) ==
    IF keywords \ SendOrderParameters # {} THEN Raised("TypeError")
    ELSE IF ~connected THEN Returned(NotLoggedInResult)
    ELSE Returned(sync_result)

\* result.get("return_code"): only the dispatch-failure result carries the key,
\* with the nonzero status.
return_code(result) == IF result.type = "dispatch_failed" THEN "nonzero" ELSE "None"

\* KiwoomService.order_stock
order_stock(connected, known, accounts, orderType, market, sync_result) ==
    IF ~connected THEN OrderStockError(0)
    ELSE IF ~known THEN OrderStockError(0)
    ELSE IF accounts = 0 THEN OrderStockError(0)
    ELSE LET call ==
                 IF orderType = "buy"
                 THEN IF market.status
                      THEN send_order(OrderStockKeywords, connected, sync_result)
                      ELSE Returned(NoneResult)
                 ELSE IF orderType = "sell"
                 THEN Raised("UnboundLocalError")
                 ELSE Returned(NoneResult)
             dispatched == IF call.raised = "" /\ call.value # NoneResult THEN 1 ELSE 0
         IN IF orderType = "buy" /\ ~market.status THEN OrderStockError(0)
            ELSE IF orderType \notin {"buy", "sell"} THEN OrderStockError(0)
            ELSE IF call.raised # "" THEN OrderStockError(dispatched)
            ELSE IF return_code(call.value) = "0" THEN OrderStockSuccess(dispatched)
            ELSE OrderStockError(dispatched)

\* The service's order_stock called with arguments drawn from small sets.
Markets == {[status |-> TRUE, is_open |-> TRUE], [status |-> TRUE, is_open |-> FALSE],
            [status |-> FALSE, is_open |-> FALSE]}
SyncResults == {MessageResult, ChejanResult, OrderTimeoutResult, DispatchFailedResult,
                ExceptionResult}
Accepting == {MessageResult, ChejanResult, OrderTimeoutResult}
ServiceCalls ==
    {Call("order_stock", <<connected, known, accounts, orderType, market, sync_result>>,
          NotReturned) :
        connected \in BOOLEAN, known \in BOOLEAN, accounts \in 0..2,
        orderType \in {"buy", "sell", "hold"}, market \in Markets,
        sync_result \in SyncResults}
CallOrderStock ==
    Return("order_stock", order_stock(fn_call.args[1], fn_call.args[2], fn_call.args[3],
                                      fn_call.args[4], fn_call.args[5], fn_call.args[6]))
NextService == CallOrderStock
InitService ==
    /\ ComponentInit
    /\ TradingManagerFields("test", default_strategies_config)
    /\ fn_call \in ServiceCalls
SpecService == InitService /\ [][NextService]_vars

\* C11: an order whose dispatch succeeded and whose ticket is resolved by its
\* timeout returns a result marked successful that carries the timeout marker,
\* never a failure: the timeout handler stores such a result, results stored by
\* a message or a fill carry no timeout marker, and send_order_sync returns the
\* stored result as it is.
C11_TimedOutOrderReturnsAcceptedResult ==
    [][/\ \A k \in PendingIds :
            (k[1] = "ORDER" /\ k \in CompletedIds')
            => IF last_op'.op = "order_timeout"
               THEN /\ TicketOf(k)'.result.success
                    /\ TicketOf(k)'.result.timeout
                    /\ ~TicketOf(k)'.result.error
               ELSE ~TicketOf(k)'.result.timeout
       /\ \A i \in TicketFrames :
            (/\ i = Len(call_stack)
             /\ call_stack[i].kind = "ORDER"
             /\ last_op'.op = "send_order_sync_return"
             /\ last_op'.key = call_stack[i].id)
            => last_op'.ret = FrameTicket(i).result
      ]_vars

\* send_order_sync has returned the result its timeout stored.
C11_Witness ==
    /\ last_op.op = "send_order_sync_return"
    /\ last_op.ret.timeout
    /\ last_op.ret.success

\* C12: when the TR request of get_pending_orders ends in a dispatch failure or
\* in a broker event with a nonzero error code, get_pending_orders returns an
\* error outcome, not a success.
C12_FailedQueryReportsError ==
    (\/ (last_op.op = "request_tr" /\ last_op.key # OrphanKey /\ last_op.ret = NoneResult)
     \/ (last_op.op = "request_tr_return" /\ last_op.ret = TrErrorResult))
    => get_pending_orders(TRUE, TRUE, last_op.ret).error

\* C13: the position map changes only in a step that handles a broker fill.
C13_PositionsChangeOnlyOnFill ==
    [][positions' # positions => trade_op'.op = "handle_chejan_data"]_vars

\* C14: a market-data tick submits an order only if the signal is not HOLD and
\* check_risk_limits passed, and then one order on the tick's code: a BUY of the
\* computed size, which is > 0, or a SELL of the full quantity held, which is > 0.
C14_TickSubmitsOnlyGuardedOrders ==
    [][trade_op'.op = "handle_real_data" =>
          /\ Len(trade_op'.submitted) <= 1
          /\ \A i \in DOMAIN trade_op'.submitted :
                LET o == trade_op'.submitted[i]
                    held == position_get(positions, o.code).quantity
                    signal == generate_signals(strategies, price_data', real_data', o.code)
                IN /\ trade_op'.action \in {"BUY", "SELL"}
                   /\ trade_op'.risk_ok
                   /\ o.code = trade_op'.code
                   /\ o.action = trade_op'.action
                   /\ o.action = "BUY" =>
                         /\ o.quantity > 0
                         /\ o.quantity = calculate_position_size(signal, ACCOUNT_BALANCE,
                                                                 o.price).quantity
                   /\ o.action = "SELL" => (held > 0 /\ o.quantity = held)
      ]_vars

\* A tick has submitted the sale of a whole position.
C14_Witness ==
    /\ trade_op.op = "handle_real_data"
    /\ trade_op.risk_ok
    /\ \E i \in DOMAIN trade_op.submitted :
          trade_op.submitted[i].action = "SELL" /\ trade_op.submitted[i].quantity > 0

\* The stop-loss and take-profit conditions of a LONG position, by cross
\* multiplication: e is the average price n/d, c the current price.
StopLossHolds(e, c) == stop_loss_pct[2] * (e[1] - c * e[2]) >= stop_loss_pct[1] * e[1]
TakeProfitHolds(e, c) == take_profit_pct[2] * (c * e[2] - e[1]) >= take_profit_pct[1] * e[1]
SellsFor(code) ==
    {i \in DOMAIN trade_op.submitted :
        trade_op.submitted[i].code = code /\ trade_op.submitted[i].action = "SELL"}

\* C15: on a monitor tick, for every position with quantity > 0 and a known
\* current price, a SELL of the full quantity is submitted exactly when the
\* stop-loss or take-profit condition holds; nothing else is submitted, and
\* positions with quantity 0 produce no order.
C15_MonitorSellsExactlyTriggered ==
    trade_op.op = "check_positions" =>
        /\ \A i \in DOMAIN positions :
              LET e == positions[i]
                  c == get_current_price(real_data, e.code)
              IN IF e.quantity > 0 /\ c # 0
                 THEN IF StopLossHolds(e.avg_price, c) \/ TakeProfitHolds(e.avg_price, c)
                      THEN /\ Cardinality(SellsFor(e.code)) = 1
                           /\ \A j \in SellsFor(e.code) :
                                 /\ trade_op.submitted[j].quantity = e.quantity
                                 /\ trade_op.submitted[j].price = c
                      ELSE SellsFor(e.code) = {}
                 ELSE SellsFor(e.code) = {}
        /\ \A j \in DOMAIN trade_op.submitted :
              /\ trade_op.submitted[j].action = "SELL"
              /\ PositionIndex(positions, trade_op.submitted[j].code) # 0

\* The monitor has sold a position on its take-profit condition.
C15_Witness ==
    /\ trade_op.op = "check_positions"
    /\ \E i \in DOMAIN positions :
          /\ positions[i].quantity > 0
          /\ TakeProfitHolds(positions[i].avg_price,
                             get_current_price(real_data, positions[i].code))
          /\ SellsFor(positions[i].code) # {}

\* C16: in trading mode 'test' no order is passed to api.send_order: every
\* order of a step is simulated, and the order manager never numbers an order.
C16_TestModeNeverDispatches ==
    trading_mode = "test" =>
        /\ order_sequence = 0
        /\ \A i \in DOMAIN trade_op.submitted : trade_op.submitted[i].simulated

\* C17: after any sequence of BUY and SELL fills with non-negative quantities,
\* every position has quantity >= 0, and a position of quantity 0 has average
\* price 0.
C17_PositionsNonNegative ==
    \A i \in DOMAIN positions :
        /\ positions[i].quantity >= 0
        /\ positions[i].quantity = 0 => positions[i].avg_price = FloatOfInt(0)

\* A sell larger than the quantity held has emptied a position.
C17_Witness ==
    /\ trade_op.op = "update_position"
    /\ trade_op.fill[1].action = "SELL"
    /\ trade_op.fill[1].held > 0
    /\ trade_op.fill[1].quantity > trade_op.fill[1].held
    /\ position_get(positions, trade_op.code).quantity = 0

\* C18: a BUY of q at p on (Q, A) gives quantity Q+q and average price
\* (Q*A + q*p)/(Q+q), the expression evaluated in float arithmetic, for
\* Q+q > 0; a SELL of q keeps the average price when Q-q > 0 and gives (0, 0)
\* when Q-q <= 0.
C18_FillArithmetic ==
    [][trade_op'.op = "update_position" =>
          LET f == trade_op'.fill[1]
              before == position_get(positions, f.code)
              after == position_get(positions', f.code)
              Q == before.quantity
              A == before.avg_price
          IN /\ (f.action = "BUY" /\ Q + f.quantity > 0) =>
                   /\ after.quantity = Q + f.quantity
                   /\ after.avg_price =
                         FDiv(FAdd(FMul(FloatOfInt(Q), A), FloatOfInt(f.quantity * f.price)),
                              FloatOfInt(Q + f.quantity))
             /\ (f.action = "SELL" /\ Q - f.quantity > 0) =>
                   (after.quantity = Q - f.quantity /\ after.avg_price = A)
             /\ (f.action = "SELL" /\ Q - f.quantity <= 0) =>
                   (after.quantity = 0 /\ after.avg_price = FloatOfInt(0))
             /\ \A i \in DOMAIN positions :
                   positions[i].code # f.code => positions'[i] = positions[i]
      ]_vars

\* BUY 10@100 then BUY 10@120 on an empty position: 20 units at 110.
C18_Witness ==
    /\ trade_op.op = "update_position"
    /\ trade_op.fill[1] = Fill("005930", "BUY", 10, 120, 10)
    /\ position_get(positions, "005930") =
          [code |-> "005930", quantity |-> 20, avg_price |-> FloatOfInt(110)]

\* C19: each code's price history holds at most 1000 samples, the most recent
\* min(n, 1000) of the n received, in arrival order (the n-th sample carries
\* the price n).
C19_HistoryKeepsMostRecent ==
    \A code \in DOMAIN price_data :
        LET h == price_data[code]
            n == Received(code)
            kept == IF n < HISTORY_MAX THEN n ELSE HISTORY_MAX
        IN /\ Len(h) <= HISTORY_MAX
           /\ Len(h) = kept
           /\ \A i \in 1..Len(h) : h[i] = n - kept + i

\* The history has evicted its two oldest samples.
C19_Witness ==
    /\ "005930" \in DOMAIN price_data
    /\ Len(price_data["005930"]) = HISTORY_MAX
    /\ price_data["005930"][1] = MaxEvicted + 1
    /\ price_data["005930"][HISTORY_MAX] = HISTORY_MAX + MaxEvicted

\* The reference RSI: G and L are the sums of the rises and of the falls over
\* the last n deltas.
Rise(h, i) == IF h[i + 1] > h[i] THEN h[i + 1] - h[i] ELSE 0
Fall(h, i) == IF h[i + 1] < h[i] THEN h[i] - h[i + 1] ELSE 0
RsiReference(h, n) ==
    IF Len(h) < n + 1 THEN <<50, 1>>
    ELSE LET first == Len(h) - n
             G == SumSeq([i \in 1..n |-> Rise(h, first + i - 1)])
             L == SumSeq([i \in 1..n |-> Fall(h, first + i - 1)])
         IN IF L = 0 THEN <<100, 1>> ELSE Rat(100 * G, G + L)
\* The distance of a double x >= 0 from the fraction r >= 0 is at most
\* 1/RsiTolerance, in exact arithmetic: with x = m * 2^e and r = n/d,
\* |m * 2^e * d - n| * RsiTolerance <= d.
RsiTolerance == 10 ^ 9
WithinTolerance(x, r) ==
    LET up == IF x[3] > 0 THEN x[3] ELSE 0
        down == IF x[3] < 0 THEN -x[3] ELSE 0
        left == BMul(BShl(x[2], up), BFromInt(r[2]))
        right == BShl(BFromInt(r[1]), down)
        distance == IF BCmp(left, right) >= 0 THEN BSub(left, right) ELSE BSub(right, left)
    IN /\ x[1] >= 0
       /\ r[1] >= 0
       /\ BCmp(BMul(distance, BFromInt(RsiTolerance)), BShl(BFromInt(r[2]), down)) <= 0

\* C20, as the specification states it: calculate_rsi(code, period) equals the
\* reference: 50 below period+1 samples, else 100 when L = 0 and 100*G/(G+L)
\* otherwise.  The float returned is compared with the float of the reference,
\* the double nearest to it.  Read for the code whose history the last sample
\* extended (the result depends on no other history) and every period.
C20_RsiEqualsReference ==
    trade_op.op = "update_real_price" =>
        \A n \in Periods :
            Let2(calculate_rsi(price_data, trade_op.code, n),
                 RsiReference(price_data[trade_op.code], n),
                 LAMBDA rsi, reference :
                     rsi[3] = FloatOf(reference[1], reference[2])[3])

\* C20, corrected: calculate_rsi(code, period) equals the reference up to float
\* rounding.  The float returned is 50.0 or 100.0 whenever the reference is 50
\* or 100; otherwise it lies within 1e-9 of 100*G/(G+L), and the expression the
\* program evaluates, 100 - 100/(1 + avg_gain/avg_loss), has the value
\* 100*G/(G+L) in exact arithmetic.  Read for the code whose history the last
\* sample extended and every period.
C20_RsiEqualsReferenceUpToRounding ==
    trade_op.op = "update_real_price" =>
        \A n \in Periods :
            Let2(calculate_rsi(price_data, trade_op.code, n),
                 RsiReference(price_data[trade_op.code], n),
                 LAMBDA rsi, reference :
                     /\ reference \in {<<RSI_NEUTRAL, 1>>, <<RSI_FULL, 1>>}
                            => rsi = FloatOfInt(reference[1])
                     /\ WithinTolerance(rsi[3], reference)
                     /\ Ideal(rsi) = reference)

\* Prices 10, 11, 10, 12 with period 3 give 75.
C20_Witness ==
    /\ "005930" \in DOMAIN price_data
    /\ price_data["005930"] = <<10, 11, 10, 12>>
    /\ calculate_rsi(price_data, "005930", 3) = FloatOfInt(75)

\* C21: for every price history of non-negative prices and every period >= 1,
\* calculate_rsi returns a value in the closed interval [0, 100].  Read for the
\* code whose history the last sample extended and every period.
C21_RsiWithinBounds ==
    trade_op.op = "update_real_price" =>
        \A n \in Periods :
            Let(calculate_rsi(price_data, trade_op.code, n), LAMBDA rsi :
                /\ FGeq(rsi, FloatOfInt(0))
                /\ FGeq(FloatOfInt(RSI_FULL), rsi))

\* A history holding a price of 0 has an RSI strictly between 0 and 100 that is
\* not the neutral default.
C21_Witness ==
    /\ "005930" \in DOMAIN price_data
    /\ \E i \in DOMAIN price_data["005930"] : price_data["005930"][i] = 0
    /\ FLess(FloatOfInt(0), calculate_rsi(price_data, "005930", 2))
    /\ FLess(calculate_rsi(price_data, "005930", 2), FloatOfInt(RSI_FULL))
    /\ calculate_rsi(price_data, "005930", 2) # FloatOfInt(RSI_NEUTRAL)

\* C22: for every non-empty sequence of registered strategies, whatever their
\* names, generate_signals returns the signal of the first registered strategy;
\* with no strategy registered it returns HOLD with confidence 0 (signals are
\* compared by action and confidence).
C22_FirstStrategyWins ==
    \A code \in Codes :
        LET returned == generate_signals(strategies, price_data, real_data, code)
            first == IF strategies = <<>> THEN HoldSignal
                     ELSE generate_signal(strategies[1], price_data, real_data, code)
        IN /\ returned.action = first.action
           /\ returned.confidence = first.confidence

\* C23: RSIStrategy.generate_signal returns BUY exactly when rsi < oversold,
\* SELL exactly when rsi > overbought and HOLD with confidence 0 otherwise, and
\* the confidence of the signal lies in [0, 1].  Read for every registered
\* strategy and the codes whose signal the last step can have changed: the code
\* that received a sample, every code after a registration.
SignalCodes == IF trade_op.op = "update_real_price" THEN {trade_op.code} ELSE Codes
C23_SignalFollowsThresholds ==
    \A i \in DOMAIN strategies : \A code \in SignalCodes :
        strategies[i].class = "RSIStrategy" =>
            Let2(generate_signal(strategies[i], price_data, real_data, code),
                 calculate_rsi(price_data, code, strategies[i].period),
                 LAMBDA signal, rsi :
                     /\ signal.action = "BUY"
                            <=> FLess(rsi, FloatOfInt(strategies[i].oversold))
                     /\ signal.action = "SELL"
                            <=> FLess(FloatOfInt(strategies[i].overbought), rsi)
                     /\ signal.action \in {"BUY", "SELL", "HOLD"}
                     /\ signal.action = "HOLD" => signal.confidence = FloatOfInt(0)
                     /\ FGeq(signal.confidence, FloatOfInt(0))
                     /\ FGeq(FloatOfInt(1), signal.confidence))

\* A registered RSI strategy signals SELL with full confidence on one code and
\* BUY on the other.
C23_Witness ==
    \E i \in DOMAIN strategies :
        /\ strategies[i].class = "RSIStrategy"
        /\ generate_signal(strategies[i], price_data, real_data, "005930").action = "SELL"
        /\ generate_signal(strategies[i], price_data, real_data, "005930").confidence = FloatOfInt(1)
        /\ generate_signal(strategies[i], price_data, real_data, "000660").action = "BUY"

\* C24: calculate_position_size never returns a negative quantity, and returns
\* 0, without failing, whenever the signal's action is not BUY or the current
\* price is <= 0.
C24_PositionSizeNeverFails ==
    (fn_call.fn = "calculate_position_size" /\ fn_call.ret # NotReturned) =>
        /\ ~fn_call.ret[1].raised
        /\ fn_call.ret[1].quantity >= 0
        /\ (fn_call.args[1].action # "BUY" \/ fn_call.args[3] <= 0)
              => fn_call.ret[1].quantity = 0

\* C25: for a BUY signal of confidence >= 0 and a price > 0,
\* calculate_position_size returns floor(balance * ratio * confidence / price),
\* the expression evaluated from left to right in float arithmetic: the
\* quantity q is the integer with q <= value < q + 1.
C25_PositionSizeIsFloor ==
    (/\ fn_call.fn = "calculate_position_size"
     /\ fn_call.ret # NotReturned
     /\ fn_call.args[1].action = "BUY"
     /\ FGeq(fn_call.args[1].confidence, FloatOfInt(0))
     /\ fn_call.args[3] > 0)
    => LET value == FDiv(FMul(FMul(FloatOfInt(fn_call.args[2]), max_position_ratio),
                              fn_call.args[1].confidence),
                         FloatOfInt(fn_call.args[3]))
           q == fn_call.ret[1].quantity
       IN /\ ~fn_call.ret[1].raised
          /\ FGeq(value, FloatOfInt(q))
          /\ FLess(value, FloatOfInt(q + 1))

\* Confidence 0.8, balance 10,000,000, ratio 0.1 and price 75,000 give 10.
C25_Witness ==
    /\ fn_call.fn = "calculate_position_size"
    /\ fn_call.args = <<[action |-> "BUY", confidence |-> FloatOf(4, 5)], 10000000, 75000>>
    /\ max_position_ratio = FloatOf(1, 10)
    /\ fn_call.ret = <<[quantity |-> 10, raised |-> FALSE]>>

\* C26: check_risk_limits returns false exactly when daily_trades >=
\* max_daily_trades, or daily_pnl < -(max_daily_loss * account_balance), or the
\* signal's confidence is < 0.5.
C26_RiskLimits ==
    (fn_call.fn = "check_risk_limits" /\ fn_call.ret # NotReturned) =>
        LET self == fn_call.args[1]
            limit == FMul(self.max_daily_loss, FloatOfInt(fn_call.args[3]))
        IN fn_call.ret[1] = ~(\/ self.daily_trades >= self.max_daily_trades
                           \/ FLess(self.daily_pnl, FNeg(limit))
                           \/ FLess(fn_call.args[2].confidence, FloatOf(1, 2)))

\* check_risk_limits has passed a signal with the daily loss exactly at its
\* limit and one trade left.
C26_Witness ==
    /\ fn_call.fn = "check_risk_limits"
    /\ fn_call.args[1].daily_trades = MAX_DAILY_TRADES - 1
    /\ fn_call.args[1].daily_pnl = FloatOfInt(-200000)
    /\ fn_call.args[3] = ACCOUNT_BALANCE
    /\ fn_call.args[2].confidence = FloatOf(1, 2)
    /\ fn_call.ret = <<TRUE>>

\* C27: should_stop_loss for a LONG position returns true exactly when
\* (entry - current)/entry >= stop_loss_pct, the boundary included; the ratio
\* is the one float arithmetic gives.
C27_StopLossInclusive ==
    (/\ fn_call.fn = "should_stop_loss"
     /\ fn_call.ret # NotReturned
     /\ fn_call.args[3] = "LONG") =>
        LET e == fn_call.args[1]
            c == FloatOfInt(fn_call.args[2])
        IN fn_call.ret[1] = ~FLess(FDiv(FSub(e, c), e), stop_loss_pct)

\* Entry 100, current 97 and threshold 0.03 give true.
C27_Witness ==
    /\ fn_call.fn = "should_stop_loss"
    /\ fn_call.args = <<FloatOfInt(100), 97, "LONG">>
    /\ stop_loss_pct = FloatOf(3, 100)
    /\ fn_call.ret = <<TRUE>>

\* The integer a raw str stands for: with commas and plus signs dropped and the
\* ends trimmed, digits with an optional leading minus; 0 for anything else.
IsNumber(t) == AllDigits(t) \/ (t # <<>> /\ t[1] = "-" /\ AllDigits(Tail(t)))
IntegerOf(value) ==
    IF value[1] # "str" THEN 0
    ELSE LET t == str_strip(SelectSeq(value[2], LAMBDA c : c \notin {",", "+"}))
         IN IF ~IsNumber(t) THEN 0
            ELSE IF t[1] = "-" THEN -digits_value(Tail(t)) ELSE digits_value(t)

\* C28: parse_data and _parseInteger never raise; parse_data returns a value for
\* every configured output field, each field's value depending on that field's
\* raw value alone: the integer it stands for (0 if none, or if missing), the
\* trimmed text ("" if missing or no str), and 0.0 for a rate that is no number.
C28_ParsingNeverFails ==
    /\ (fn_call.fn = "_parseInteger" /\ fn_call.ret # NotReturned) =>
          /\ ~fn_call.ret[1].raised
          /\ fn_call.ret[1].value = IntegerOf(fn_call.args[1])
    /\ (fn_call.fn = "parse_data" /\ fn_call.ret # NotReturned) =>
          LET outputs == tr_outputs(fn_call.args[1])
              raw_data == fn_call.args[2]
              result == fn_call.ret[1].value
          IN /\ ~fn_call.ret[1].raised
             /\ DOMAIN result = DOMAIN outputs
             /\ \A field \in DOMAIN outputs :
                   LET raw == dict_get(raw_data, field)
                   IN /\ outputs[field] = "int" => result[field] = IntegerOf(raw)
                      /\ outputs[field] = "str" =>
                            result[field] = IF raw[1] = "str" THEN str_strip(raw[2]) ELSE <<>>
                      /\ outputs[field] = "float" =>
                            /\ Ideal(result[field]) \in Int \X Int
                            /\ (raw[1] # "str" \/ py_float(str_replace(str_replace(
                                    raw[2], "%"), "+")).raised)
                                  => result[field] = FloatOfInt(0)

\* parse_data has returned 0 for a price that is no number, next to a parsed
\* rate of 7.1 and a trimmed name.
C28_Witness ==
    /\ fn_call.fn = "parse_data"
    /\ fn_call.ret # NotReturned
    /\ fn_call.args[2] = RawData(Str(<<" ", "x", " ">>), Str(<<"1", "x", "7">>),
                                 Str(<<"+", "7", ".", "1", "%">>))
    /\ fn_call.ret[1].value["current_price"] = 0
    /\ fn_call.ret[1].value["change_rate"] = FloatOf(71, 10)
    /\ fn_call.ret[1].value["stock_name"] = <<"x">>

\* C29: with two order tickets pending at once, a fill event completes only the
\* ticket of the order the fill belongs to, never another pending order.
C29_FillCompletesItsOwnOrder ==
    [][last_op'.op = "receive_chejan_data" =>
          \A k \in PendingIds :
              k \in CompletedIds' => k = <<"ORDER", last_op'.key>>
      ]_vars

\* C30: after a broker fill event for an order submitted through the order
\* manager, the position for that code is updated by the fill: a filled BUY
\* raises the quantity held, which is then > 0.
C30_FillUpdatesPosition ==
    [][(trade_op'.op = "handle_chejan_data" /\ trade_op'.action = "BUY") =>
          /\ position_get(positions', trade_op'.code).quantity
                > position_get(positions, trade_op'.code).quantity
          /\ position_get(positions', trade_op'.code).quantity > 0
      ]_vars

\* C31: within one trading session the number of orders submitted from trading
\* signals never exceeds max_daily_trades, after any sequence of ticks.
C31_SignalOrdersWithinDailyLimit == order_sequence <= MAX_DAILY_TRADES

\* C32: the monitor submits at most one SELL for a triggered position: when a
\* monitor tick has submitted a SELL for a position and the broker accepted it,
\* the next monitor tick, with no fill in between, submits no other SELL on
\* that code.
C32_MonitorSellsOnce ==
    [][(trade_op.op = "check_positions" /\ trade_op'.op = "check_positions") =>
          \A j \in DOMAIN trade_op'.submitted :
              ~\E k \in DOMAIN trader_pending_orders :
                  /\ trader_pending_orders[k].order_id
                        > order_sequence - Len(trade_op.submitted)
                  /\ trader_pending_orders[k].action = "SELL"
                  /\ trader_pending_orders[k].code = trade_op'.submitted[j].code
      ]_vars

\* C33: while is_trading is false no order is submitted to the broker, neither
\* by the market-data path nor by the monitor.
C33_NoOrdersWhileStopped ==
    [][(~is_trading /\ ~is_trading') => order_sequence' = order_sequence]_vars

\* C39: no order is submitted for an instrument before period + 1 price samples
\* have been received for it; until then the RSI is the neutral 50 and the
\* signal is HOLD.
C39_NoOrderBeforeWarmUp ==
    /\ \A i \in DOMAIN trade_op.submitted :
          HistoryLen(trade_op.submitted[i].code) >= strategies[1].period + 1
    /\ \A code \in Codes :
          HistoryLen(code) < strategies[1].period + 1 =>
              /\ calculate_rsi(price_data, code, strategies[1].period) = FloatOfInt(RSI_NEUTRAL)
              /\ generate_signals(strategies, price_data, real_data, code).action = "HOLD"
              /\ PositionIndex(positions, code) = 0
              /\ \A k \in DOMAIN trader_pending_orders :
                    trader_pending_orders[k].code # code

\* The tick that brings the period + 1-th sample of a code submits an order on
\* it, while the other code, still short of samples, has none.
C39_Witness ==
    /\ trade_op.op = "handle_real_data"
    /\ HistoryLen(trade_op.code) = strategies[1].period + 1
    /\ \E i \in DOMAIN trade_op.submitted : trade_op.submitted[i].code = trade_op.code
    /\ \E code \in Codes : HistoryLen(code) \in 1..strategies[1].period

\* C34: if extracting a single field of a TR response fails, the response is
\* still delivered: a TR-data event with error code 0 whose field read fails
\* completes the open ticket it names with the data result.
C34_FailedFieldStillDelivers ==
    [][(/\ last_op'.op = "receive_tr_data"
        /\ TrIndex(pending_tr_requests, last_op'.key) # 0
        /\ ~pending_tr_requests[TrIndex(pending_tr_requests, last_op'.key)].completed
        /\ pending_tr_requests' = receive_tr_data(pending_tr_requests, last_op'.key, "0", TRUE))
       => /\ pending_tr_requests'[TrIndex(pending_tr_requests, last_op'.key)].completed
          /\ pending_tr_requests'[TrIndex(pending_tr_requests, last_op'.key)].result
                = TrDataResult
      ]_vars

\* C35: when request_tr is called with a callback, the callback is stored on
\* the ticket, and the TR-data event that completes the ticket invokes it
\* exactly once, with the ticket's result.
C35_CallbackStoredAndInvokedOnce ==
    [][/\ \A callback \in Callbacks \ {NoCallback}, d \in DispatchOutcomes,
             early \in TrEarlyEvents :
             (RequestTr(callback, d, early) /\ TrIndex(pending_tr_requests', next_uid) # 0)
                => pending_tr_requests'[TrIndex(pending_tr_requests', next_uid)].callback
                     = callback
       /\ last_op'.op = "receive_tr_data" =>
             \A i \in DOMAIN pending_tr_requests :
                 (pending_tr_requests[i].callback # NoCallback
                    /\ ~pending_tr_requests[i].completed
                    /\ pending_tr_requests'[i].completed)
                 => pending_tr_requests'[i].callback_calls
                      = <<pending_tr_requests'[i].result>>
      ]_vars

\* C38: when the adapter is not logged in, request_tr and send_order_sync
\* return a failure at once: no ticket, no timer, no suspended caller, and the
\* active tables and the screen counters are unchanged.
C38_NotLoggedInChangesNothing ==
    [][(~is_connected /\ last_op'.op \in {"request_tr", "send_order_sync"}) =>
          /\ last_op'.ret = IF last_op'.op = "request_tr" THEN NoneResult
                            ELSE NotLoggedInResult
          /\ ~last_op'.ret.success
          /\ UNCHANGED <<pending_tr_requests, pending_orders, active_timers, call_stack,
                         tr_screen_counter, order_screen_counter, next_uid, is_connected>>
      ]_vars

\* An order is refused for want of a login while an earlier request still waits:
\* the session was disconnected by a later connect event.
C38_Witness ==
    /\ ~is_connected
    /\ last_op.op = "send_order_sync"
    /\ last_op.ret = NotLoggedInResult
    /\ pending_tr_requests # <<>>
    /\ call_stack # <<>>

\* C37: no ticket is marked completed while its caller stays suspended with
\* nothing left to wake it: once a ticket is completed and its timeout has
\* fired, the caller's event loop has been told to exit, also when the
\* resolving event was handled before the loop ran.
C37_CompletedTicketWakesCaller ==
    /\ \A i \in DOMAIN pending_tr_requests :
          (/\ pending_tr_requests[i].completed
           /\ <<"TR", pending_tr_requests[i].request_id>> \in StackIds
           /\ <<"TR", pending_tr_requests[i].request_id>> \notin active_timers)
             => ~isRunning(pending_tr_requests[i].event_loop)
    /\ \A i \in DOMAIN pending_orders :
          (/\ pending_orders[i].completed
           /\ <<"ORDER", pending_orders[i].order_id>> \in StackIds
           /\ <<"ORDER", pending_orders[i].order_id>> \notin active_timers)
             => ~isRunning(pending_orders[i].event_loop)

\* C40: login() returns true exactly when the session ends up connected: at
\* once and without dispatching if already connected, false at once if the
\* connect dispatch status is nonzero, and otherwise after the connect-result
\* event, true if and only if that event's code is 0; is_connected becomes
\* true only in a connect-result event with code 0.
C40_LoginReturnsConnectionState ==
    [][/\ \A d \in DispatchOutcomes :
             Login(d) =>
                 IF is_connected
                 THEN last_op'.ret = BoolResult(TRUE) /\ UNCHANGED call_stack
                 ELSE IF ~d.raised /\ d.ret # 0
                 THEN last_op'.ret = BoolResult(FALSE) /\ UNCHANGED call_stack
                 ELSE IF ~d.raised
                 THEN last_op'.ret = Suspended /\ Len(call_stack') = Len(call_stack) + 1
                 ELSE TRUE
       /\ last_op'.op = "login_return" =>
             /\ last_op.op = "event_connect"
             /\ last_op'.ret = BoolResult(last_op.key = 0)
       /\ (last_op'.op \in {"login", "login_return"} /\ last_op'.ret # Suspended) =>
             last_op'.ret = BoolResult(is_connected')
       /\ (is_connected' /\ ~is_connected) =>
             (last_op'.op = "event_connect" /\ last_op'.key = 0)
      ]_vars

\* login() has waited for the connect result, which carried a failure code, and
\* has returned false.
C40_Witness ==
    /\ last_op.op = "login_return"
    /\ last_op.ret = BoolResult(FALSE)
    /\ ~is_connected
    /\ Idle

\* C36: for a connected session with at least one account and a known symbol,
\* order_stock with orderType 'buy' or 'sell' dispatches one order and returns
\* a success result when the order ticket resolves by acknowledgement, fill or
\* unconfirmed timeout; it returns an error result only on dispatch failure or
\* broker rejection.
C36_OrderStockReportsAcceptedOrders ==
    (fn_call.fn = "order_stock" /\ fn_call.ret # NotReturned) =>
        LET connected == fn_call.args[1]
            known == fn_call.args[2]
            accounts == fn_call.args[3]
            orderType == fn_call.args[4]
            sync_result == fn_call.args[6]
            ret == fn_call.ret[1]
        IN (connected /\ known /\ accounts >= 1 /\ orderType \in {"buy", "sell"}) =>
              /\ ret.dispatched = 1
              /\ sync_result \in Accepting => ret.success
              /\ ret.error => sync_result \notin Accepting

====
